---- MODULE Spec2Model ----
(***************************************************************************)
(* Model of tools/build_story_from_md.py: the build driver main(), the     *)
(* graph validator validate_scenes(), the parsing functions                *)
(* parse_frontmatter, parse_choices, parse_text_blocks, parse_scene_file   *)
(* and the serialiser generate_story_js.                                   *)
(*                                                                         *)
(* For the driver and the validator, Python values are encoded as strings: *)
(* a Python str s is the string s, a Python int n is "#n" (so the int 0 is *)
(* "#0" and differs from the str "0"), and None is NoneVal.                *)
(*                                                                         *)
(* For the parsing functions a text is a sequence of lexemes (a newline, a *)
(* space, a punctuation mark, a digit, a word) and a Python value is a     *)
(* record [t, v] of its type and its content.                              *)
(***************************************************************************)
EXTENDS Integers, Sequences, FiniteSets, TLC

VARIABLES
    pc,               \* position of main()
    theme_errors,     \* main: theme_errors
    md_files,         \* main: md_files, as the list of file stems
    scenes,           \* main: scenes
    duplicates,       \* main: set(duplicates), as printed
    validated,        \* whether validate_scenes has been called
    errors,           \* main: errors, returned by validate_scenes
    warnings,         \* main: warnings, returned by validate_scenes
    referenced_ids,   \* validate_scenes: referenced_ids at its return
    enemy_files,      \* main: enemy_files, as the list of file stems
    enemies,          \* main: enemies
    enemy_duplicates, \* main: set(enemy_duplicates), as printed
    written,          \* the output files opened for writing in this run
    exit_code,        \* -1 while running, else the process exit status
    content,          \* the text handed to a parsing function, or the
                      \* texts of the scene files handed to the compiler
    parsed            \* what the function returned for content

vars == <<pc, theme_errors, md_files, scenes, duplicates, validated, errors,
          warnings, referenced_ids, enemy_files, enemies, enemy_duplicates,
          written, exit_code, content, parsed>>

----------------------------------------------------------------------------
(* Bounds of the input domain *)

MaxFiles == 2        \* scene files in scenes/ (driver runs)
MaxEnemyFiles == 2   \* enemy files in enemies/
MaxSize == 4         \* size of a scene set handed to validate_scenes: its
                     \* scenes plus its choices plus its action target fields

----------------------------------------------------------------------------
(* Values *)

NoneVal == "<None>"

Range(s) == {s[i] : i \in DOMAIN s}

\* Python truthiness of a scalar: None, '' and 0 are falsy.
Truthy(v) == v \notin {NoneVal, "", "#0"}

ActionKeys ==
    <<"success_target", "failure_target", "victory_target", "defeat_target",
      "flee_target">>

ActionKeySet == Range(ActionKeys)

\* action.get(key): None when the key is absent.
ActionGet(action, key) == action[key]

----------------------------------------------------------------------------
(* validate_scenes *)

\* scene_ids = set(s['id'] for s in scenes)
SceneIds(ss) == {ss[i].id : i \in DOMAIN ss}

\* if target not in ('_roll', '_battle')
ChoiceIsCheckedNoBattle(target) == target # "_roll"
ChoiceIsChecked(target) == target \notin {"_roll", "_battle"}

\* if target:   (action target fields)
ActionTargetIsCheckedNoSentinel(target) ==
    Truthy(target) /\ target \notin {"_roll", "_battle"}
ActionTargetIsChecked(target) == Truthy(target)

\* errors.append(...): the message names the scene id, the field, the target
AddErrorFront(errs, sid, field, target) ==
    <<[scene |-> sid, field |-> field, target |-> target]>> \o errs
AddError(errs, sid, field, target) ==
    Append(errs, [scene |-> sid, field |-> field, target |-> target])

\* referenced_ids.add(target); if target not in scene_ids: errors.append(...)
CheckTarget(st, scene_ids, sid, field, target) ==
    [errors |-> IF target \notin scene_ids
                THEN AddError(st.errors, sid, field, target)
                ELSE st.errors,
     referenced_ids |-> st.referenced_ids \cup {target}]

\* for choice in scene['choices']
RECURSIVE CheckChoices(_, _, _, _)
CheckChoices(scene, scene_ids, k, st) ==
    IF k > Len(scene.choices) THEN st
    ELSE LET target == scene.choices[k].target
         IN CheckChoices(scene, scene_ids, k + 1,
                IF ChoiceIsChecked(target)
                THEN CheckTarget(st, scene_ids, scene.id, "choice target", target)
                ELSE st)

\* the keys inspected for an action of the given type
TargetKeys(type) ==
    IF type = "roll_dice" THEN <<"success_target", "failure_target">>
    ELSE IF type = "start_battle"
    THEN <<"victory_target", "defeat_target", "flee_target">>
    ELSE <<>>

\* for key in [...]: target = action.get(key); if target: ...
RECURSIVE CheckKeys(_, _, _, _, _, _)
CheckKeys(scene, scene_ids, action, keys, k, st) ==
    IF k > Len(keys) THEN st
    ELSE LET target == ActionGet(action, keys[k])
         IN CheckKeys(scene, scene_ids, action, keys, k + 1,
                IF ActionTargetIsChecked(target)
                THEN CheckTarget(st, scene_ids, scene.id, keys[k], target)
                ELSE st)

\* for action in scene.get('actions', [])
RECURSIVE CheckActions(_, _, _, _)
CheckActions(scene, scene_ids, k, st) ==
    IF k > Len(scene.actions) THEN st
    ELSE LET action == scene.actions[k]
         IN CheckActions(scene, scene_ids, k + 1,
                CheckKeys(scene, scene_ids, action,
                          TargetKeys(ActionGet(action, "type")), 1, st))

\* one iteration of `for scene in scenes`: the choices, then the actions
CheckScene(scene, scene_ids, st) ==
    CheckActions(scene, scene_ids, 1, CheckChoices(scene, scene_ids, 1, st))

\* for scene in scenes
RECURSIVE CheckScenes(_, _, _, _)
CheckScenes(ss, scene_ids, k, st) ==
    IF k > Len(ss) THEN st
    ELSE CheckScenes(ss, scene_ids, k + 1, CheckScene(ss[k], scene_ids, st))

\* the loop of validate_scenes: errors and referenced_ids after it
ValidateLoop(ss) ==
    CheckScenes(ss, SceneIds(ss), 1, [errors |-> <<>>, referenced_ids |-> {}])

\* unreachable = scene_ids - referenced_ids - {'start'}
UnreachableOnlyUsed(scene_ids, refd) == (scene_ids \cap refd) \ {"start"}
Unreachable(scene_ids, refd) == (scene_ids \ refd) \ {"start"}

\* `for scene_id in unreachable` iterates a set: every order can come out
OrdersOf(S) == {f \in [1..Cardinality(S) -> S] : Range(f) = S}

----------------------------------------------------------------------------
(* helpers of main() *)

\* validate_themes: an error iff the selected theme's CSS file is missing
ValidateThemes(selected_css_exists) ==
    IF selected_css_exists THEN <<>> ELSE <<"Selected theme CSS not found">>

\* parse_scene_file: 'id': frontmatter.get('id', filepath.stem)
ParseSceneFile(stem, file) ==
    [id |-> IF file.fm_id = NoneVal THEN stem ELSE file.fm_id,
     choices |-> file.choices,
     actions |-> file.actions]

\* ids = [s['id'] for s in scenes]
IdsOf(ss) == [i \in DOMAIN ss |-> ss[i].id]

\* ids.count(id)
Count(ids, id) == Cardinality({i \in DOMAIN ids : ids[i] = id})

\* set([id for id in ids if ids.count(id) > 1])
DuplicatesOverTwo(ids) ==
    {ids[i] : i \in {j \in DOMAIN ids : Count(ids, ids[j]) > 2}}
Duplicates(ids) == {ids[i] : i \in {j \in DOMAIN ids : Count(ids, ids[j]) > 1}}

\* if errors: ... sys.exit(1)
HasErrorsNever(errs) == FALSE
HasErrors(errs) == errs # <<>>

\* the end of `for filepath in md_files` / `for filepath in enemy_files`:
\* the loop is left once every file of the list has been taken
LoopExhaustedAtFirst(done, files) == Len(done) >= 1
LoopExhausted(done, files) == Len(done) = Len(files)

\* parse_enemy_file, then: if 'id' not in enemy: enemy['id'] = filepath.stem
ParseEnemyFile(stem, file) ==
    [id |-> IF file.fm_id = NoneVal THEN stem ELSE file.fm_id]

----------------------------------------------------------------------------
(* Input domains *)

SceneStems == {"start", "a", "b"}
EnemyStems == {"rat", "bat"}
ChoiceTargets == {"start", "a", "_roll", "_battle"}
ActionTypes == {"roll_dice", "start_battle", "play_sfx"}
ActionVals == {"a", "_roll", "#0"}
IdVals == {"start", "a", "_roll", "#0"}

\* sequences of n distinct elements of S
DistinctSeqs(S, n) ==
    {f \in [1..n -> S] : \A i, j \in 1..n : i # j => f[i] # f[j]}

\* the values an action of the given type carries under a key: any value
\* under a key that names a target of its type, and a stray key for
\* roll_dice and for the other types
FieldVals(type, key) ==
    IF key \in Range(TargetKeys(type)) THEN ActionVals
    ELSE IF \/ type = "roll_dice" /\ key = "victory_target"
            \/ type = "play_sfx" /\ key = "success_target"
         THEN {"a"}
         ELSE {}

MkAction(type, f) ==
    [k \in {"type"} \cup ActionKeySet |->
        IF k = "type" THEN type
        ELSE IF k \in DOMAIN f THEN f[k] ELSE NoneVal]

\* the actions with exactly n target fields set
ActionsWithFields(n) ==
    UNION {{MkAction(t, f) :
                f \in UNION {{g \in [K -> ActionVals] :
                                 \A k \in K : g[k] \in FieldVals(t, k)} :
                             K \in {K \in SUBSET ActionKeySet : Cardinality(K) = n}}} :
           t \in ActionTypes}

ChoiceSeqs(n) == {[i \in 1..n |-> [target |-> f[i]]] : f \in [1..n -> ChoiceTargets]}

\* what one scene file of a driver run can hold: at most one choice or one
\* roll_dice action with its success_target set
DriverContents ==
    {[choices |-> cs, actions |-> <<>>] : cs \in ChoiceSeqs(0) \cup ChoiceSeqs(1)}
    \cup {[choices |-> <<>>, actions |-> <<MkAction("roll_dice", f)>>] :
            f \in [{"success_target"} -> ActionVals]}

SceneFileContents ==
    {[fm_id |-> id, choices |-> c.choices, actions |-> c.actions] :
        id \in {NoneVal, "start", "#0"}, c \in DriverContents}

EnemyFileContents == {[fm_id |-> id] : id \in {NoneVal, "rat"}}

----------------------------------------------------------------------------
(* main() *)

Exit(code) == pc' = "exit" /\ exit_code' = code

Init ==
    /\ pc = "theme"
    /\ theme_errors = <<>>
    /\ md_files = <<>>
    /\ scenes = <<>>
    /\ duplicates = {}
    /\ validated = FALSE
    /\ errors = <<>>
    /\ warnings = <<>>
    /\ referenced_ids = {}
    /\ enemy_files = <<>>
    /\ enemies = <<>>
    /\ enemy_duplicates = {}
    /\ written = {}
    /\ exit_code = -1
    /\ content = <<>>
    /\ parsed = <<>>

\* theme configuration: validate, exit on a theme error, else write theme.js
MainTheme ==
    /\ pc = "theme"
    /\ \E selected_css_exists \in BOOLEAN :
        /\ theme_errors' = ValidateThemes(selected_css_exists)
        /\ IF theme_errors' # <<>>
           THEN Exit(1) /\ UNCHANGED written
           ELSE /\ written' = written \cup {"theme.js"}
                /\ pc' = "find_scenes"
                /\ UNCHANGED exit_code
    /\ UNCHANGED <<content, parsed>>
    /\ UNCHANGED <<md_files, scenes, duplicates, validated, errors, warnings,
                   referenced_ids, enemy_files, enemies, enemy_duplicates>>

\* SCENES_DIR.exists(), SCENES_DIR.glob('*.md')
MainFindScenes ==
    /\ pc = "find_scenes"
    /\ \E dir_exists \in BOOLEAN :
       \E files \in UNION {DistinctSeqs(SceneStems, n) : n \in 0..MaxFiles} :
        IF ~dir_exists \/ files = <<>>
        THEN Exit(1) /\ UNCHANGED md_files
        ELSE md_files' = files /\ pc' = "parse_scenes" /\ UNCHANGED exit_code
    /\ UNCHANGED <<content, parsed>>
    /\ UNCHANGED <<theme_errors, scenes, duplicates, validated, errors,
                   warnings, referenced_ids, enemy_files, enemies,
                   enemy_duplicates, written>>

\* one iteration of `for filepath in md_files`
MainParseScene ==
    /\ pc = "parse_scenes"
    /\ LET stem == md_files[Len(scenes) + 1] IN
       \E readable \in BOOLEAN : \E file \in SceneFileContents :
        IF ~readable
        THEN Exit(1) /\ UNCHANGED scenes
        ELSE /\ scenes' = Append(scenes, ParseSceneFile(stem, file))
             /\ pc' = IF LoopExhausted(scenes', md_files)
                      THEN "check_duplicates" ELSE "parse_scenes"
             /\ UNCHANGED exit_code
    /\ UNCHANGED <<content, parsed>>
    /\ UNCHANGED <<theme_errors, md_files, duplicates, validated, errors,
                   warnings, referenced_ids, enemy_files, enemies,
                   enemy_duplicates, written>>

\* Check for duplicate IDs
MainCheckDuplicates ==
    /\ pc = "check_duplicates"
    /\ duplicates' = Duplicates(IdsOf(scenes))
    /\ IF duplicates' # {}
       THEN Exit(1)
       ELSE pc' = "validate" /\ UNCHANGED exit_code
    /\ UNCHANGED <<content, parsed>>
    /\ UNCHANGED <<theme_errors, md_files, scenes, validated, errors, warnings,
                   referenced_ids, enemy_files, enemies, enemy_duplicates,
                   written>>

\* errors, warnings = validate_scenes(scenes); exit on errors
MainValidate ==
    /\ pc = "validate"
    /\ validated' = TRUE
    /\ LET st == ValidateLoop(scenes) IN
        /\ errors' = st.errors
        /\ referenced_ids' = st.referenced_ids
        /\ warnings' \in OrdersOf(Unreachable(SceneIds(scenes), st.referenced_ids))
    /\ IF HasErrors(errors')
       THEN Exit(1)
       ELSE pc' = "write_story" /\ UNCHANGED exit_code
    /\ UNCHANGED <<content, parsed>>
    /\ UNCHANGED <<theme_errors, md_files, scenes, duplicates, enemy_files,
                   enemies, enemy_duplicates, written>>

\* generate_story_js and the write of story.js
MainWriteStory ==
    /\ pc = "write_story"
    /\ written' = written \cup {"story.js"}
    /\ pc' = "find_enemies"
    /\ UNCHANGED <<content, parsed>>
    /\ UNCHANGED <<theme_errors, md_files, scenes, duplicates, validated,
                   errors, warnings, referenced_ids, enemy_files, enemies,
                   enemy_duplicates, exit_code>>

\* ENEMIES_DIR.exists(), ENEMIES_DIR.glob('*.md'): both optional
MainFindEnemies ==
    /\ pc = "find_enemies"
    /\ \E dir_exists \in BOOLEAN :
       \E files \in UNION {DistinctSeqs(EnemyStems, n) : n \in 0..MaxEnemyFiles} :
        IF ~dir_exists \/ files = <<>>
        THEN Exit(0) /\ UNCHANGED enemy_files
        ELSE enemy_files' = files /\ pc' = "parse_enemies" /\ UNCHANGED exit_code
    /\ UNCHANGED <<content, parsed>>
    /\ UNCHANGED <<theme_errors, md_files, scenes, duplicates, validated,
                   errors, warnings, referenced_ids, enemies,
                   enemy_duplicates, written>>

\* one iteration of `for filepath in enemy_files`
MainParseEnemy ==
    /\ pc = "parse_enemies"
    /\ LET stem == enemy_files[Len(enemies) + 1] IN
       \E readable \in BOOLEAN : \E file \in EnemyFileContents :
        IF ~readable
        THEN Exit(1) /\ UNCHANGED enemies
        ELSE /\ enemies' = Append(enemies, ParseEnemyFile(stem, file))
             /\ pc' = IF LoopExhausted(enemies', enemy_files)
                      THEN "check_enemy_duplicates" ELSE "parse_enemies"
             /\ UNCHANGED exit_code
    /\ UNCHANGED <<content, parsed>>
    /\ UNCHANGED <<theme_errors, md_files, scenes, duplicates, validated,
                   errors, warnings, referenced_ids, enemy_files,
                   enemy_duplicates, written>>

\* Check for duplicate enemy IDs
MainCheckEnemyDuplicates ==
    /\ pc = "check_enemy_duplicates"
    /\ enemy_duplicates' = Duplicates(IdsOf(enemies))
    /\ IF enemy_duplicates' # {}
       THEN Exit(1)
       ELSE pc' = "write_enemies" /\ UNCHANGED exit_code
    /\ UNCHANGED <<content, parsed>>
    /\ UNCHANGED <<theme_errors, md_files, scenes, duplicates, validated,
                   errors, warnings, referenced_ids, enemy_files, enemies,
                   written>>

\* generate_enemies_js, the write of enemies.js, and the normal return
MainWriteEnemies ==
    /\ pc = "write_enemies"
    /\ written' = written \cup {"enemies.js"}
    /\ Exit(0)
    /\ UNCHANGED <<content, parsed>>
    /\ UNCHANGED <<theme_errors, md_files, scenes, duplicates, validated,
                   errors, warnings, referenced_ids, enemy_files, enemies,
                   enemy_duplicates>>

Next ==
    \/ MainTheme
    \/ MainFindScenes
    \/ MainParseScene
    \/ MainCheckDuplicates
    \/ MainValidate
    \/ MainWriteStory
    \/ MainFindEnemies
    \/ MainParseEnemy
    \/ MainCheckEnemyDuplicates
    \/ MainWriteEnemies

Spec == Init /\ [][Next]_vars

----------------------------------------------------------------------------
(* validate_scenes over the full input domain: main() at the call, with   *)
(* the scene list it hands over: distinct ids (the duplicate check has      *)
(* passed), at least one scene, and a size of at most MaxSize, counting one  *)
(* for each scene, each choice and each target field of an action           *)

StemList == <<"start", "a", "b", "c">>

RECURSIVE GenScenes(_, _, _)
RECURSIVE GenActions(_, _, _, _, _, _)

\* scenes is acc extended by one scene per remaining id, m items left
GenScenes(ids, m, acc) ==
    IF Len(acc) = Len(ids) THEN scenes = acc
    ELSE \E w \in 0..m : \E c \in 0..w : \E cs \in ChoiceSeqs(c) :
            GenActions(ids, m - w, acc, cs, w - c, <<>>)

\* the next scene has the choices cs and the actions as, then wa more fields
GenActions(ids, m, acc, cs, wa, as) ==
    IF wa = 0
    THEN GenScenes(ids, m, Append(acc, [id |-> ids[Len(acc) + 1],
                                        choices |-> cs, actions |-> as]))
    ELSE \E w \in 1..wa : \E a \in ActionsWithFields(w) :
            GenActions(ids, m, acc, cs, wa - w, Append(as, a))

InitValidate ==
    /\ pc = "validate"
    /\ theme_errors = <<>>
    /\ \E n \in 1..MaxSize : \E ids \in DistinctSeqs(IdVals, n) :
            GenScenes(ids, MaxSize - n, <<>>)
    /\ md_files = [i \in DOMAIN scenes |-> StemList[i]]
    /\ duplicates = {}
    /\ validated = FALSE
    /\ errors = <<>>
    /\ warnings = <<>>
    /\ referenced_ids = {}
    /\ enemy_files = <<>>
    /\ enemies = <<>>
    /\ enemy_duplicates = {}
    /\ written = {"theme.js"}
    /\ exit_code = -1
    /\ content = <<>>
    /\ parsed = <<>>

NextValidate == MainValidate

SpecValidate == InitValidate /\ [][NextValidate]_vars

----------------------------------------------------------------------------
(* Vocabulary of the properties, stated on the scene list itself *)

Sentinels == {"_roll", "_battle"}

OutputFiles == {"theme.js", "story.js", "enemies.js"}

\* the target fields named for each action type
NamedTargetFields(action) ==
    IF action.type = "roll_dice" THEN {"success_target", "failure_target"}
    ELSE IF action.type = "start_battle"
    THEN {"victory_target", "defeat_target", "flee_target"}
    ELSE {}

\* the positions of the choices, and of the named target fields that are set
ChoicePositions(ss) ==
    UNION {{<<i, j>> : j \in DOMAIN ss[i].choices} : i \in DOMAIN ss}

FieldPositions(ss) ==
    UNION {UNION {{<<i, k, key>> :
                      key \in {f \in NamedTargetFields(ss[i].actions[k]) :
                                  ss[i].actions[k][f] \notin {NoneVal, ""}}} :
                  k \in DOMAIN ss[i].actions} :
           i \in DOMAIN ss}

ChoiceRef(ss, p) ==
    [scene |-> ss[p[1]].id, field |-> "choice target",
     target |-> ss[p[1]].choices[p[2]].target]

FieldRef(ss, p) ==
    [scene |-> ss[p[1]].id, field |-> p[3],
     target |-> ss[p[1]].actions[p[2]][p[3]]]

\* the dangling references: a choice target that is no sentinel and no scene
\* id, a named target field whose value is set and is no scene id
DanglingChoices(ss) ==
    {p \in ChoicePositions(ss) :
        /\ ChoiceRef(ss, p).target \notin Sentinels
        /\ ChoiceRef(ss, p).target \notin SceneIds(ss)}

DanglingFields(ss) ==
    {p \in FieldPositions(ss) : FieldRef(ss, p).target \notin SceneIds(ss)}

Occurrences(seq, e) == Cardinality({i \in DOMAIN seq : seq[i] = e})

\* the scene ids some choice or some named target field has as its value
TargetedIds(ss) ==
    {ChoiceRef(ss, p).target : p \in ChoicePositions(ss)}
    \cup {FieldRef(ss, p).target : p \in FieldPositions(ss)}

\* the same, leaving out the choices whose target is a sentinel
ReferencedTargets(ss) ==
    {ChoiceRef(ss, p).target :
        p \in {q \in ChoicePositions(ss) : ChoiceRef(ss, q).target \notin Sentinels}}
    \cup {FieldRef(ss, p).target : p \in FieldPositions(ss)}

\* position of a scene id in the input list (ids are distinct when validated)
IndexOf(ss, id) == CHOOSE i \in DOMAIN ss : ss[i].id = id

\* s is a subsequence of t: its elements occur in t in the same order
RECURSIVE IsSubseq(_, _)
IsSubseq(s, t) ==
    IF s = <<>> THEN TRUE
    ELSE IF t = <<>> THEN FALSE
    ELSE IF Head(s) = Head(t) THEN IsSubseq(Tail(s), Tail(t))
    ELSE IsSubseq(s, Tail(t))

\* the scenes reachable from the ids in S along choices and named targets
Successors(ss, id) ==
    {t \in TargetedIds(<<ss[IndexOf(ss, id)]>>) : t \in SceneIds(ss)}

RECURSIVE ReachableFrom(_, _)
ReachableFrom(ss, S) ==
    LET T == S \cup UNION {Successors(ss, id) : id \in S}
    IN IF T = S THEN S ELSE ReachableFrom(ss, T)

AllParsed == md_files # <<>> /\ Len(scenes) = Len(md_files)

RepeatedIds(ss) ==
    {id \in SceneIds(ss) : Cardinality({i \in DOMAIN ss : ss[i].id = id}) > 1}

----------------------------------------------------------------------------
(* C1 *)

\* C1: a run of main() that ends with a fatal error (exit status 1) has
\* written no output file (theme.js, story.js, enemies.js).
C1_NoOutputOnFatalExit ==
    exit_code = 1 => written \cap OutputFiles = {}

----------------------------------------------------------------------------
(* C2 *)

\* C2: story.js is written, and the step that writes it is reached, only if
\* every scene file was parsed, no two scenes share an id, and
\* validate_scenes was called and returned an empty error list.
C2_StoryOnlyAfterValidation ==
    (pc = "write_story" \/ "story.js" \in written) =>
        /\ AllParsed
        /\ RepeatedIds(scenes) = {}
        /\ validated
        /\ errors = <<>>
        /\ DanglingChoices(scenes) = {}

C2_Witness ==
    /\ "story.js" \in written
    /\ Len(scenes) = 2
    /\ \E i \in DOMAIN scenes : scenes[i].choices # <<>>

----------------------------------------------------------------------------
(* C3 *)

\* C3: the errors returned by validate_scenes are exactly the dangling
\* references: one error per choice whose target is neither a sentinel nor a
\* scene id, one per named roll_dice / start_battle target field whose
\* non-empty value is no scene id, each naming scene, field and target, and
\* no other error.
C3_ErrorsAreExactlyDangling ==
    validated =>
        LET expected == {ChoiceRef(scenes, p) : p \in DanglingChoices(scenes)}
                        \cup {FieldRef(scenes, p) : p \in DanglingFields(scenes)}
        IN \A e \in expected \cup Range(errors) :
              Occurrences(errors, e) =
                  Cardinality({p \in DanglingChoices(scenes) : ChoiceRef(scenes, p) = e})
                  + Cardinality({p \in DanglingFields(scenes) : FieldRef(scenes, p) = e})

----------------------------------------------------------------------------
(* C4 *)

----------------------------------------------------------------------------
(* C5 *)

StripSentinelChoices(ss) ==
    [i \in DOMAIN ss |->
        [ss[i] EXCEPT !.choices =
            SelectSeq(ss[i].choices, LAMBDA c : c.target \notin Sentinels)]]

\* C5: a choice whose target is `_roll` or `_battle` produces no error and
\* adds nothing to the referenced ids: no error names a sentinel as a choice
\* target, a sentinel is among the referenced ids only when an action field
\* holds it, and the result is the one obtained with those choices removed.
C5_SentinelChoicesAreSkipped ==
    validated =>
        /\ \A e \in Range(errors) :
              ~(e.field = "choice target" /\ e.target \in Sentinels)
        /\ \A s \in Sentinels \cap referenced_ids :
              \E p \in FieldPositions(scenes) : FieldRef(scenes, p).target = s
        /\ LET stripped == ValidateLoop(StripSentinelChoices(scenes))
           IN errors = stripped.errors /\ referenced_ids = stripped.referenced_ids

C5_Witness ==
    /\ validated
    /\ \E p \in ChoicePositions(scenes) :
          /\ ChoiceRef(scenes, p).target = "_battle"
          /\ "_battle" \notin SceneIds(scenes)
    /\ \E p \in ChoicePositions(scenes) : ChoiceRef(scenes, p).target = "_roll"

----------------------------------------------------------------------------
(* C6 *)

\* C6 (as claimed): a named target field of a roll_dice or start_battle
\* action that holds `_roll` or `_battle` produces no error and adds no
\* referenced id.
C6_SentinelFieldsAreSkipped ==
    validated =>
        /\ \A e \in Range(errors) :
              ~(e.field \in ActionKeySet /\ e.target \in Sentinels)
        /\ referenced_ids \cap Sentinels = {}

\* C6 (amended): a named target field of a roll_dice or start_battle action
\* that holds `_roll` or `_battle` is handled as any other id: the value is
\* added to the referenced ids, and an error naming the scene, the field and
\* the value is reported exactly when no scene has that id.
C6_SentinelFieldsAreOrdinary ==
    validated =>
        \A p \in FieldPositions(scenes) :
            FieldRef(scenes, p).target \in Sentinels =>
                /\ FieldRef(scenes, p).target \in referenced_ids
                /\ FieldRef(scenes, p) \in Range(errors)
                       <=> FieldRef(scenes, p).target \notin SceneIds(scenes)

C6_Witness ==
    /\ validated
    /\ \E p \in FieldPositions(scenes) :
          /\ FieldRef(scenes, p).target = "_roll"
          /\ "_roll" \notin SceneIds(scenes)
          /\ FieldRef(scenes, p) \in Range(errors)

----------------------------------------------------------------------------
(* C7 *)

\* C7: the unreachable warnings name exactly the scene ids that are not
\* `start` and are the target of no choice and of no named roll_dice /
\* start_battle target field in any scene; and a run whose validation and
\* enemy processing found no error has written story.js and exits with 0.
C7_WarningsAreExactlyUntargeted ==
    /\ validated =>
          Range(warnings) = {id \in SceneIds(scenes) :
                                id # "start" /\ id \notin TargetedIds(scenes)}
    /\ (validated /\ errors = <<>> /\ pc = "exit" /\ exit_code = 0) =>
          "story.js" \in written

----------------------------------------------------------------------------
(* C8 *)

\* C8 (as claimed): for a scene set containing `start` for which
\* validate_scenes returns no errors and no warnings, every scene is
\* reachable from `start` along choice targets and named action targets.
C8_NoWarningMeansReachable ==
    (validated /\ "start" \in SceneIds(scenes) /\ errors = <<>> /\ warnings = <<>>) =>
        SceneIds(scenes) \subseteq ReachableFrom(scenes, {"start"})

\* C8 (amended): for a scene set containing `start` for which
\* validate_scenes returns no errors and no warnings, every scene other than
\* `start` is the target of at least one non-sentinel choice or named action
\* target field of some scene of the set, possibly of itself.
C8_NoWarningMeansReferenced ==
    (validated /\ "start" \in SceneIds(scenes) /\ errors = <<>> /\ warnings = <<>>) =>
        SceneIds(scenes) \ {"start"} \subseteq ReferencedTargets(scenes)

C8_Witness ==
    /\ validated
    /\ "start" \in SceneIds(scenes)
    /\ errors = <<>>
    /\ warnings = <<>>
    /\ ~(SceneIds(scenes) \subseteq ReachableFrom(scenes, {"start"}))

----------------------------------------------------------------------------
(* C9 *)

\* the references of scene i in the order the scene lists them
ChoiceRefsOf(ss, i) ==
    [j \in DOMAIN ss[i].choices |-> ChoiceRef(ss, <<i, j>>)]

RECURSIVE FieldRefsFrom(_, _, _, _)
FieldRefsFrom(ss, i, k, n) ==
    IF k > Len(ss[i].actions) THEN <<>>
    ELSE IF n > Len(ActionKeys) THEN FieldRefsFrom(ss, i, k + 1, 1)
    ELSE <<FieldRef(ss, <<i, k, ActionKeys[n]>>)>>
             \o FieldRefsFrom(ss, i, k, n + 1)

\* C9: the errors come in scene input order and, within one scene, the
\* errors about its choices in the order of the choices and the errors about
\* its actions in the order of the actions (and of the fields within one).
C9_ErrorsInInputOrder ==
    validated =>
        /\ \A p, q \in DOMAIN errors :
              p < q => IndexOf(scenes, errors[p].scene) <= IndexOf(scenes, errors[q].scene)
        /\ \A i \in DOMAIN scenes :
              /\ IsSubseq(SelectSeq(errors, LAMBDA e :
                                e.scene = scenes[i].id /\ e.field = "choice target"),
                          ChoiceRefsOf(scenes, i))
              /\ IsSubseq(SelectSeq(errors, LAMBDA e :
                                e.scene = scenes[i].id /\ e.field \in ActionKeySet),
                          FieldRefsFrom(scenes, i, 1, 1))

C9_Witness ==
    /\ validated
    /\ \E p, q \in DOMAIN errors :
          /\ p < q
          /\ errors[p].scene # errors[q].scene
          /\ errors[p].field = "choice target"
          /\ errors[q].field \in ActionKeySet

----------------------------------------------------------------------------
(* C10 *)

\* C10: the warnings come in the scenes' input order: when an unreachable
\* scene precedes another in the input list, its warning precedes the
\* other's.
C10_WarningsInInputOrder ==
    validated =>
        \A p, q \in DOMAIN warnings :
            p < q => IndexOf(scenes, warnings[p]) < IndexOf(scenes, warnings[q])

----------------------------------------------------------------------------
(* C11 *)

\* C11: a run that exits with status 1 after all scene files were parsed has
\* reported every fatal error of the scene set: the duplicate ids when some
\* id is repeated, and the dangling choice targets when there are any.
C11_AllFatalErrorsReported ==
    (pc = "exit" /\ exit_code = 1 /\ AllParsed) =>
        /\ RepeatedIds(scenes) # {} => duplicates = RepeatedIds(scenes)
        /\ DanglingChoices(scenes) # {} =>
              \A p \in DanglingChoices(scenes) :
                  \E k \in DOMAIN errors : errors[k] = ChoiceRef(scenes, p)

----------------------------------------------------------------------------
(* C27 *)

\* C27: the duplicate check and validate_scenes are reached, and
\* validate_scenes has been called, only with every discovered scene file
\* compiled into scenes; the enemy duplicate check is reached, and has
\* reported, only with every discovered enemy file compiled into enemies.
C27_ValidationAfterAssembly ==
    /\ (pc \in {"check_duplicates", "validate"} \/ validated \/ duplicates # {})
          => AllParsed
    /\ (pc \in {"check_enemy_duplicates", "write_enemies"} \/ enemy_duplicates # {})
          => (enemy_files # <<>> /\ Len(enemies) = Len(enemy_files))

C27_Witness ==
    /\ pc = "exit"
    /\ validated
    /\ Len(md_files) = 2 /\ Len(scenes) = 2
    /\ Len(enemy_files) = 2 /\ Len(enemies) = 2
    /\ "enemies.js" \in written

----------------------------------------------------------------------------
(* C28 *)

\* C28: once story.js is written, the scenes it maps are all the compiled
\* scene files, no two under one id, and every choice target that is no
\* sentinel and every set roll_dice / start_battle target field of a scene
\* is the id of a scene.
C28_StoryIsClosed ==
    "story.js" \in written =>
        /\ AllParsed
        /\ \A i, j \in DOMAIN scenes : scenes[i].id = scenes[j].id => i = j
        /\ \A p \in ChoicePositions(scenes) :
              ChoiceRef(scenes, p).target \notin Sentinels
                  => ChoiceRef(scenes, p).target \in SceneIds(scenes)
        /\ \A p \in FieldPositions(scenes) :
              FieldRef(scenes, p).target \in SceneIds(scenes)

----------------------------------------------------------------------------
(***************************************************************************)
(* The parsing functions, on text.                                         *)
(*                                                                         *)
(* A text is a sequence of lexemes: "\n", " ", the punctuation the         *)
(* patterns of the code look for, decimal digits, and words that hold none *)
(* of these.  A lexeme of several characters ("---", "->", "heals") stands *)
(* for those characters in a row; no pattern of the code matches a part of *)
(* such a lexeme of the texts drawn below.                                 *)
(*                                                                         *)
(* A Python value is a record [t, v]: t is its type and v its content (a   *)
(* text for str, a number for int, a sequence of values for list, a        *)
(* sequence of [k, v] pairs in insertion order for dict).                  *)
(***************************************************************************)

PyStr(s) == [t |-> "str", v |-> s]
PyInt(n) == [t |-> "int", v |-> n]
PyFloat(x) == [t |-> "float", v |-> x]
PyList(l) == [t |-> "list", v |-> l]
PyDict(d) == [t |-> "dict", v |-> d]
PyNone == [t |-> "None", v |-> <<>>]
IsNone(x) == x.t = "None"

\* a == b for two values; the types are compared first
RECURSIVE PyEq(_, _)
PyEq(a, b) ==
    /\ a.t = b.t
    /\ IF a.t = "list"
       THEN /\ Len(a.v) = Len(b.v)
            /\ \A i \in DOMAIN a.v : PyEq(a.v[i], b.v[i])
       ELSE IF a.t = "dict"
       THEN /\ Len(a.v) = Len(b.v)
            /\ \A i \in DOMAIN a.v :
                  a.v[i].k = b.v[i].k /\ PyEq(a.v[i].v, b.v[i].v)
       ELSE a.v = b.v

\* bool(x) of a str, list, dict, int or None
PyTruthy(x) ==
    IF x.t \in {"str", "list", "dict"} THEN x.v # <<>>
    ELSE IF x.t = "int" THEN x.v # 0
    ELSE x.t # "None"

\* d[k] = v: an existing key keeps its place, a new key goes last
DictHas(d, k) == \E i \in DOMAIN d : d[i].k = k
DictIndex(d, k) == CHOOSE i \in DOMAIN d : d[i].k = k
DictSet(d, k, v) ==
    IF DictHas(d, k)
    THEN [d EXCEPT ![DictIndex(d, k)] = [k |-> k, v |-> v]]
    ELSE Append(d, [k |-> k, v |-> v])
\* d.get(k, default)
DictGet(d, k, default) ==
    IF DictHas(d, k) THEN d[DictIndex(d, k)].v ELSE default
\* del d[k]
DictDel(d, k) ==
    LET i == DictIndex(d, k)
    IN SubSeq(d, 1, i - 1) \o SubSeq(d, i + 1, Len(d))

\* the characters str.strip() removes and \s matches
IsSpace(c) == c \in {" ", "\n"}
\* the characters \d matches and int() reads
DecimalDigits == <<"0", "1", "2", "3", "4", "5", "6", "7", "8", "9">>
IsDecimal(c) == \E i \in DOMAIN DecimalDigits : DecimalDigits[i] = c
DigitValue(c) == (CHOOSE i \in DOMAIN DecimalDigits : DecimalDigits[i] = c) - 1
\* a character with str.isdigit() true that int() rejects
SuperscriptTwo == "²"
IsDigitChar(c) == IsDecimal(c) \/ c = SuperscriptTwo

\* s.lstrip(), s.strip()
RECURSIVE LStrip(_)
LStrip(s) ==
    IF s # <<>> /\ IsSpace(Head(s)) THEN LStrip(Tail(s)) ELSE s
RECURSIVE RStrip(_)
RStrip(s) ==
    IF s # <<>> /\ IsSpace(s[Len(s)]) THEN RStrip(SubSeq(s, 1, Len(s) - 1))
    ELSE s
Strip(s) == RStrip(LStrip(s))

\* s[n:]
From(s, n) == SubSeq(s, n + 1, Len(s))
\* s.startswith(prefix)
StartsWith(s, prefix) ==
    Len(s) >= Len(prefix) /\ SubSeq(s, 1, Len(prefix)) = prefix
\* c in s, for a one-lexeme c
Contains(s, c) == \E i \in DOMAIN s : s[i] = c
\* s.find(c) + 1
Find(s, c) == CHOOSE i \in DOMAIN s : s[i] = c /\ \A j \in 1..(i - 1) : s[j] # c

\* s.split(sep), for a one-lexeme sep
RECURSIVE Split(_, _)
Split(s, sep) ==
    IF ~Contains(s, sep) THEN <<s>>
    ELSE <<SubSeq(s, 1, Find(s, sep) - 1)>> \o Split(From(s, Find(s, sep)), sep)

\* int(s) of a text of decimal digits
RECURSIVE IntOf(_)
IntOf(s) ==
    IF s = <<>> THEN 0
    ELSE 10 * IntOf(SubSeq(s, 1, Len(s) - 1)) + DigitValue(s[Len(s)])

----------------------------------------------------------------------------
(* The regular expressions of the code, matched as re matches them *)

Min(S) == CHOOSE i \in S : \A j \in S : i <= j
Max(S) == CHOOSE i \in S : \A j \in S : i >= j

\* the first position from i on that holds no space: where \s* stops
RECURSIVE SkipSpaces(_, _)
SkipSpaces(s, i) ==
    IF i <= Len(s) /\ IsSpace(s[i]) THEN SkipSpaces(s, i + 1) ELSE i
\* the first position from i on that holds no decimal digit: where \d* stops
RECURSIVE SkipDigits(_, _)
SkipDigits(s, i) ==
    IF i <= Len(s) /\ IsDecimal(s[i]) THEN SkipDigits(s, i + 1) ELSE i

\* s has the literal lit at position i
LitAt(s, i, lit) ==
    i >= 1 /\ i + Len(lit) - 1 <= Len(s) /\ SubSeq(s, i, i + Len(lit) - 1) = lit

\* the patterns: Lit is a literal, Group(lit, close) is lit\s*([^close]+)close
Lit(lit) == [kind |-> "lit", lit |-> lit, close |-> ""]
Group(lit, close) == [kind |-> "group", lit |-> lit, close |-> close]
RequiresPat == Group(<<"(", "requires", ":">>, ")")           \* \(requires:\s*([^)]+)\)
SetsPat == Group(<<"(", "sets", ":">>, ")")                   \* \(sets:\s*([^)]+)\)
RequireItemsPat == Group(<<"(", "require_items", ":">>, ")")  \* \(require_items:\s*([^)]+)\)
UsesPat == Group(<<"(", "uses", ":">>, ")")                   \* \(uses:\s*([^)]+)\)
BattlePat == Group(<<"(", "battle", ":">>, ")")               \* \(battle:\s*([^)]+)\)
SfxPat == Group(<<"[", "sfx", ":">>, "]")                     \* \[sfx:\s*([^\]]+)\]
HealsPat == [kind |-> "heals", lit |-> <<>>, close |-> ""]            \* heals:\s*(\d+)
ParenHealsPat == [kind |-> "paren_heals", lit |-> <<>>, close |-> ""] \* \(heals:\s*\d+\)
CommaHealsPat == [kind |-> "comma_heals", lit |-> <<>>, close |-> ""] \* ,?\s*heals:\s*\d+
HealsCommaPat == [kind |-> "heals_comma", lit |-> <<>>, close |-> ""] \* heals:\s*\d+,?\s*
ChoicesPat == [kind |-> "choices", lit |-> <<>>, close |-> ""]       \* ###\s*Choices\s*\n
RulePat == Lit(<<"\n", "---", "\n">>)                                 \* \n---\n

\* heals:\s*\d+ at position h: the position of its last digit, 0 if no match
HealsEnd(s, h) ==
    IF LitAt(s, h, <<"heals", ":">>)
    THEN LET g == SkipSpaces(s, h + 2)
             e == SkipDigits(s, g)
         IN IF e > g THEN e - 1 ELSE 0
    ELSE 0

\* the closing delimiter of a group that opens at i: the first one after lit
GroupClose(pat, s, i) ==
    LET a == i + Len(pat.lit)
        closes == {c \in a..Len(s) : s[c] = pat.close}
    IN IF closes = {} THEN 0 ELSE Min(closes)

\* the last position of the match of pat that starts at position i of s, or
\* 0 when pat does not match there (no pattern matches the empty text)
MatchEnd(pat, s, i) ==
    CASE pat.kind = "lit" ->
            IF LitAt(s, i, pat.lit) THEN i + Len(pat.lit) - 1 ELSE 0
      [] pat.kind = "group" ->
            IF LitAt(s, i, pat.lit) /\ GroupClose(pat, s, i) > i + Len(pat.lit)
            THEN GroupClose(pat, s, i) ELSE 0
      [] pat.kind = "heals" -> HealsEnd(s, i)
      [] pat.kind = "paren_heals" ->
            IF s[i] = "(" /\ HealsEnd(s, i + 1) # 0
                 /\ LitAt(s, HealsEnd(s, i + 1) + 1, <<")">>)
            THEN HealsEnd(s, i + 1) + 1 ELSE 0
      [] pat.kind = "comma_heals" ->
            HealsEnd(s, SkipSpaces(s, IF s[i] = "," THEN i + 1 ELSE i))
      [] pat.kind = "heals_comma" ->
            LET e == HealsEnd(s, i)
            IN IF e = 0 THEN 0
               ELSE SkipSpaces(s, IF LitAt(s, e + 1, <<",">>) THEN e + 2 ELSE e + 1) - 1
      [] pat.kind = "choices" ->
            IF s[i] = "###" /\ LitAt(s, SkipSpaces(s, i + 1), <<"Choices">>)
            THEN LET k == SkipSpaces(s, i + 1)
                     nls == {j \in (k + 1)..(SkipSpaces(s, k + 1) - 1) : s[j] = "\n"}
                 IN IF nls = {} THEN 0 ELSE Max(nls)
            ELSE 0

\* group(1) of the match of pat that starts at position i of s
MatchGroup(pat, s, i) ==
    IF pat.kind = "group"
    THEN LET a == i + Len(pat.lit)
             c == GroupClose(pat, s, i)
             g == SkipSpaces(s, a)
         IN SubSeq(s, IF g < c THEN g ELSE c - 1, c - 1)
    ELSE SubSeq(s, SkipSpaces(s, i + 2), HealsEnd(s, i))

\* re.search(pat, s): the leftmost match, start = 0 when there is none
MatchStarts(pat, s) == {i \in 1..Len(s) : MatchEnd(pat, s, i) # 0}
FirstOf(starts) == IF starts = {} THEN 0 ELSE Min(starts)
MatchAt(pat, s, i) ==
    IF i = 0 THEN [start |-> 0, end |-> 0, group |-> <<>>]
    ELSE [start |-> i, end |-> MatchEnd(pat, s, i),
          group |-> IF pat.kind \in {"group", "heals"}
                    THEN MatchGroup(pat, s, i) ELSE <<>>]
ReSearch(pat, s) == MatchAt(pat, s, FirstOf(MatchStarts(pat, s)))

\* re.sub(pat, '', s): every match removed, left to right; m is the first
RECURSIVE ReSub(_, _)
ReSubFrom(pat, s, m) ==
    IF m.start = 0 THEN s
    ELSE SubSeq(s, 1, m.start - 1) \o ReSub(pat, From(s, m.end))
ReSub(pat, s) == ReSubFrom(pat, s, ReSearch(pat, s))

\* re.split(pat, s); m is the first match
RECURSIVE ReSplit(_, _)
ReSplitFrom(pat, s, m) ==
    IF m.start = 0 THEN <<s>>
    ELSE <<SubSeq(s, 1, m.start - 1)>> \o ReSplit(pat, From(s, m.end))
ReSplit(pat, s) == ReSplitFrom(pat, s, ReSearch(pat, s))

----------------------------------------------------------------------------
(* parse_choices *)

K(name) == <<name>>

\* [f.strip() for f in group.split(',')]
StripAll(parts) == [i \in DOMAIN parts |-> PyStr(Strip(parts[i]))]
\* [i.strip() for i in content.split(',') if i.strip()]
StripNonEmptyKeepAll(parts) == StripAll(parts)
StripNonEmpty(parts) ==
    SelectSeq(StripAll(parts), LAMBDA x : x.v # <<>>)

\* choice = {'label': '', 'target': '', 'require_flags': [], ...}
NewChoice ==
    << [k |-> K("label"), v |-> PyStr(<<>>)],
       [k |-> K("target"), v |-> PyStr(<<>>)],
       [k |-> K("require_flags"), v |-> PyList(<<>>)],
       [k |-> K("set_flags"), v |-> PyList(<<>>)],
       [k |-> K("require_items"), v |-> PyList(<<>>)],
       [k |-> K("uses"), v |-> PyList(<<>>)],
       [k |-> K("sfx"), v |-> PyNone],
       [k |-> K("heals"), v |-> PyNone],
       [k |-> K("battle_action"), v |-> PyNone] >>

\* which arrow the line is split at: the unicode arrow when the line has one
ArrowOf(line) ==
    IF Contains(line, "→") THEN "→"
    ELSE IF Contains(line, "->") THEN "->"
    ELSE ""

\* the state of one pass of the loop body: the choice and label_part; m is
\* the match of the marker's pattern in label_part
\* (requires: ...), (sets: ...), (require_items: ...)
ListMatched(st, key, pat, m) ==
    IF m.start = 0 THEN st
    ELSE [choice |-> DictSet(st.choice, K(key),
                             PyList(StripAll(Split(m.group, ",")))),
          label_part |-> Strip(ReSub(pat, st.label_part))]
ListMarker(st, key, pat) ==
    ListMatched(st, key, pat, ReSearch(pat, st.label_part))

\* heals: N, read wherever it stands; removed when it is a group of its own
HealsMatchedKeepLabel(st, m) ==
    IF m.start = 0 THEN st
    ELSE [choice |-> DictSet(st.choice, K("heals"), PyInt(IntOf(m.group))),
          label_part |-> st.label_part]
HealsMatched(st, m) ==
    IF m.start = 0 THEN st
    ELSE [choice |-> DictSet(st.choice, K("heals"), PyInt(IntOf(m.group))),
          label_part |-> Strip(ReSub(ParenHealsPat, st.label_part))]
HealsMarker(st) == HealsMatched(st, ReSearch(HealsPat, st.label_part))

\* uses_content with its heals fragment removed
UsesContentKeepHeals(group) == group
UsesContent(group) ==
    Strip(ReSub(HealsCommaPat, Strip(ReSub(CommaHealsPat, group))))

\* (uses: ...)
UsesMatched(st, m) ==
    IF m.start = 0 THEN st
    ELSE [choice |-> DictSet(st.choice, K("uses"),
                       PyList(StripNonEmpty(Split(UsesContent(m.group), ",")))),
          label_part |-> Strip(ReSub(UsesPat, st.label_part))]
UsesMarker(st) == UsesMatched(st, ReSearch(UsesPat, st.label_part))

\* (battle: ...), [sfx: ...]
StrMatched(st, key, pat, m) ==
    IF m.start = 0 THEN st
    ELSE [choice |-> DictSet(st.choice, K(key), PyStr(Strip(m.group))),
          label_part |-> Strip(ReSub(pat, st.label_part))]
StrMarker(st, key, pat) ==
    StrMatched(st, key, pat, ReSearch(pat, st.label_part))

\* the i-th marker block of the loop body, in the order of the code
MarkerStage(st, i) ==
    CASE i = 1 -> ListMarker(st, "require_flags", RequiresPat)
      [] i = 2 -> ListMarker(st, "set_flags", SetsPat)
      [] i = 3 -> ListMarker(st, "require_items", RequireItemsPat)
      [] i = 4 -> HealsMarker(st)
      [] i = 5 -> UsesMarker(st)
      [] i = 6 -> StrMarker(st, "battle_action", BattlePat)
      [] i = 7 -> StrMarker(st, "sfx", SfxPat)

\* the blocks from the i-th on; no pattern matches an empty label_part
RECURSIVE MarkersFrom(_, _)
MarkersFrom(st, i) ==
    IF i > 7 \/ st.label_part = <<>> THEN st
    ELSE MarkersFrom(MarkerStage(st, i), i + 1)

Markers(st) == MarkersFrom(st, 1)

\* Clean up empty arrays to reduce output size
RECURSIVE CleanUp(_, _)
IsEmptyListOrNone(v) == (v.t = "list" /\ v.v = <<>>) \/ v.t = "None"
CleanUp(d, keys) ==
    IF keys = <<>> THEN d
    ELSE CleanUp(IF IsEmptyListOrNone(DictGet(d, K(Head(keys)), PyNone))
                 THEN DictDel(d, K(Head(keys))) ELSE d,
                 Tail(keys))

ModifierKeys ==
    <<"require_flags", "set_flags", "require_items", "uses", "heals",
      "battle_action", "sfx">>

\* line.startswith('-') and line[1:], "->" and "---" being lexemes that start
\* with the character "-"
StartsWithDash(line) == Head(line) \in {"-", "->", "---"}
DropFirstChar(line) ==
    IF Head(line) = "->" THEN <<">">> \o Tail(line)
    ELSE IF Head(line) = "---" THEN <<"--">> \o Tail(line)
    ELSE Tail(line)

\* the body of `for line in text.strip().split('\n')`: the choices with the
\* choice of this line appended, if the line gives one
\* choice['label'] = label_part, and the clean-up
LabelledChoice(st) ==
    PyDict(CleanUp(DictSet(st.choice, K("label"), PyStr(st.label_part)),
                   ModifierKeys))
\* the line split at its arrow: parts[1] is the target, parts[0] label_part
SplitAtArrow(parts) ==
    LabelledChoice(Markers([choice |-> DictSet(NewChoice, K("target"),
                                               PyStr(Strip(parts[2]))),
                            label_part |-> Strip(parts[1])]))
\* a line without an arrow gives no choice
ArrowLine(choices, line, arrow) ==
    IF arrow = "" THEN choices
    ELSE Append(choices, SplitAtArrow(Split(line, arrow)))
\* a line that is empty or does not start with a dash gives no choice
DashLine(choices, stripped) ==
    IF stripped = <<>> \/ ~StartsWithDash(stripped) THEN choices
    ELSE ArrowLine(choices, Strip(DropFirstChar(stripped)),
                   ArrowOf(Strip(DropFirstChar(stripped))))
ParseChoiceLine(choices, raw) == DashLine(choices, Strip(raw))

RECURSIVE ParseChoiceLines(_, _)
ParseChoiceLines(choices, lines) ==
    IF lines = <<>> THEN choices
    ELSE ParseChoiceLines(ParseChoiceLine(choices, Head(lines)), Tail(lines))

parse_choices(text) == ParseChoiceLines(<<>>, Split(Strip(text), "\n"))

----------------------------------------------------------------------------
(* parse_choices on one choice line *)

MaxMarkers == 3   \* markers between the prose and the arrow of a choice line

Prose == {<<"Use", " ", "Coffee">>}
ItemNames == {<<"Coffee">>, <<"Iced", " ", "Tea">>}
\* heal amounts as written and as numbers
HealAmounts == {[text |-> <<"5">>, value |-> 5], [text |-> <<"1", "2">>, value |-> 12]}
BattleVerbs == {<<"item">>}

UsesMarkerText(item) == <<"(", "uses", ":", " ">> \o item \o <<")">>
HealsMarkerText(n) == <<"(", "heals", ":", " ">> \o n \o <<")">>
BattleMarkerText(verb) == <<"(", "battle", ":", " ">> \o verb \o <<")">>
\* legacy style: uses and heals in one group, in either order
LegacyMarkerText(item, n) ==
    <<"(", "uses", ":", " ">> \o item \o <<",", " ", "heals", ":", " ">> \o n \o <<")">>
LegacyHealsFirstText(item, n) ==
    <<"(", "uses", ":", " ", "heals", ":">> \o n \o <<",", " ">> \o item \o <<")">>
\* one group that opens with heals and holds uses
HealsGroupText(item, n) ==
    <<"(", "heals", ":", " ">> \o n \o <<",", " ", "uses", ":", " ">> \o item \o <<")">>

MarkerTexts ==
    {UsesMarkerText(i) : i \in ItemNames}
    \cup {HealsMarkerText(n.text) : n \in HealAmounts}
    \cup {BattleMarkerText(v) : v \in BattleVerbs}
    \cup {LegacyMarkerText(<<"Potion">>, <<"5">>),
          LegacyHealsFirstText(<<"Potion">>, <<"5">>),
          HealsGroupText(<<"Potion">>, <<"5">>),
          <<"(", "uses", ":", " ", ",", ")">>,
          <<"(", "requires", ":", " ", "f", ",", "g", ")">>,
          <<"(", "sets", ":", "f", ")">>,
          <<"(", "require_items", ":", " ", ")">>,
          <<"[", "sfx", ":", " ", "a.ogg", "]">>}

Arrows == {"→", "->"}
LineTargets == {<<"a">>, <<"_battle">>}

\* what follows the label: nothing, an arrow and a target, or two of them
ArrowTarget(arrow, target) == <<" ", arrow, " ">> \o target
LineTails ==
    {<<>>}
    \cup {ArrowTarget("→", <<"_battle">>), ArrowTarget("->", <<"a">>)}
    \cup {ArrowTarget("->", <<"a">>) \o ArrowTarget(b, <<"c">>) : b \in Arrows}

RECURSIVE JoinWithSpace(_)
JoinWithSpace(parts) ==
    IF parts = <<>> THEN <<>>
    ELSE <<" ">> \o Head(parts) \o JoinWithSpace(Tail(parts))

ChoiceLine(prose, markers, tail) ==
    <<"-", " ">> \o prose \o JoinWithSpace(markers) \o tail

InitChoices ==
    /\ pc = "parse_choices"
    /\ \E prose \in Prose : \E n \in 0..MaxMarkers :
       \E markers \in [1..n -> MarkerTexts] : \E tail \in LineTails :
            content = ChoiceLine(prose, markers, tail) \o <<"\n">>
    /\ parsed = <<>>
    /\ theme_errors = <<>>
    /\ md_files = <<>>
    /\ scenes = <<>>
    /\ duplicates = {}
    /\ validated = FALSE
    /\ errors = <<>>
    /\ warnings = <<>>
    /\ referenced_ids = {}
    /\ enemy_files = <<>>
    /\ enemies = <<>>
    /\ enemy_duplicates = {}
    /\ written = {}
    /\ exit_code = -1

\* choices = parse_choices(choices_part)
ParseChoices ==
    /\ pc = "parse_choices"
    /\ parsed' = parse_choices(content)
    /\ pc' = "done"
    /\ UNCHANGED <<theme_errors, md_files, scenes, duplicates, validated,
                   errors, warnings, referenced_ids, enemy_files, enemies,
                   enemy_duplicates, written, exit_code, content>>

NextChoices == ParseChoices

SpecChoices == InitChoices /\ [][NextChoices]_vars

----------------------------------------------------------------------------
(* Vocabulary of the properties of parse_choices *)

\* the marker pattern of each modifier key
MarkerPats ==
    { [key |-> "require_flags", pat |-> RequiresPat],
      [key |-> "set_flags", pat |-> SetsPat],
      [key |-> "require_items", pat |-> RequireItemsPat],
      [key |-> "uses", pat |-> UsesPat],
      [key |-> "heals", pat |-> HealsPat],
      [key |-> "battle_action", pat |-> BattlePat],
      [key |-> "sfx", pat |-> SfxPat] }

MarkerMatched(pat, text) == ReSearch(pat, text).start # 0

\* a value that is null or an empty list
IsNullOrEmptyList(x) == x.t = "None" \/ (x.t = "list" /\ x.v = <<>>)

\* the lexemes of an item name: neither blank, comma nor part of heals: N
IsNameLexeme(c) == ~IsSpace(c) /\ ~IsDecimal(c) /\ c \notin {",", "heals", ":"}
NamesItem(group) == \E i \in DOMAIN group : IsNameLexeme(group[i])

HasLexeme(text, c) == \E i \in DOMAIN text : text[i] = c
CountLexeme(text, c) == Cardinality({i \in DOMAIN text : text[i] = c})

----------------------------------------------------------------------------
(* C13 *)

----------------------------------------------------------------------------
(* C14 *)

----------------------------------------------------------------------------
(* C15 *)

\* the item and the amount written in a group that holds both
ItemOf(group) ==
    Strip(SelectSeq(group, LAMBDA c : ~IsDecimal(c) /\ c \notin {",", "heals", ":"}))
AmountOf(group) ==
    (CHOOSE n \in HealAmounts : n.text = SelectSeq(group, IsDecimal)).value

\* the line has one uses group and one heals, and the heals is in that group
HasLegacyGroup ==
    /\ MarkerMatched(UsesPat, content)
    /\ CountLexeme(content, "uses") = 1
    /\ CountLexeme(content, "heals") = 1
    /\ HasLexeme(ReSearch(UsesPat, content).group, "heals")

----------------------------------------------------------------------------
(* C20 *)

\* the choice line of content, without its list marker
LineOf(text) == Strip(Tail(Strip(text)))
ArrowPositions(line) == {i \in DOMAIN line : line[i] \in Arrows}

\* C20: a line with no arrow gives no choice; any other line gives one
\* choice, whose target is all the text right of the first arrow of the
\* line, trimmed, and whose label holds no arrow.
C20_SplitAtFirstArrow ==
    pc = "done" =>
        LET line == LineOf(content) IN
        IF ArrowPositions(line) = {} THEN parsed = <<>>
        ELSE /\ Len(parsed) = 1
             /\ PyEq(DictGet(parsed[1].v, K("target"), PyNone),
                     PyStr(Strip(From(line, Min(ArrowPositions(line))))))
             /\ ArrowPositions(DictGet(parsed[1].v, K("label"), PyNone).v) = {}

----------------------------------------------------------------------------
(* C21 *)

\* the word that opens the marker of each modifier key
MarkerWord(key) ==
    CASE key = "require_flags" -> "requires"
      [] key = "set_flags" -> "sets"
      [] key = "require_items" -> "require_items"
      [] key = "uses" -> "uses"
      [] key = "heals" -> "heals"
      [] key = "battle_action" -> "battle"
      [] key = "sfx" -> "sfx"

\* text holds the fragment `word:`
HasFragment(text, word) ==
    \E i \in 1..(Len(text) - 1) : text[i] = word /\ text[i + 1] = ":"

\* C21: whenever a Choice carries a modifier key, its label holds no
\* fragment `word:` of the marker of that key, in whatever order and nesting
\* the markers stand in the line.
C21_NoMarkerResidue ==
    pc = "done" =>
        \A i \in DOMAIN parsed :
            \A m \in MarkerPats :
                DictHas(parsed[i].v, K(m.key)) =>
                    ~HasFragment(DictGet(parsed[i].v, K("label"), PyNone).v,
                                 MarkerWord(m.key))

----------------------------------------------------------------------------
(* C22 *)

ListKeys == {"require_flags", "set_flags", "require_items", "uses"}

\* every comma-separated element of the group is blank
OnlyEmptyElements(group) ==
    \A i \in DOMAIN Split(group, ",") : Strip(Split(group, ",")[i]) = <<>>

\* C22: no list stored in a Choice has an empty-string element, and a list
\* marker whose group holds only empty elements gives no key.
C22_NoEmptyListElement ==
    pc = "done" =>
        \A i \in DOMAIN parsed :
            \A m \in MarkerPats :
                m.key \in ListKeys =>
                    /\ DictHas(parsed[i].v, K(m.key)) =>
                          \A j \in DOMAIN DictGet(parsed[i].v, K(m.key), PyNone).v :
                              DictGet(parsed[i].v, K(m.key), PyNone).v[j].v # <<>>
                    /\ (/\ MarkerMatched(m.pat, content)
                        /\ OnlyEmptyElements(ReSearch(m.pat, content).group))
                          => ~DictHas(parsed[i].v, K(m.key))

----------------------------------------------------------------------------
(* parse_text_blocks *)

\* [block.strip() for block in blocks if block.strip()]
TextBlocks(blocks) ==
    SelectSeq([i \in DOMAIN blocks |-> PyStr(Strip(blocks[i]))], LAMBDA x : x.v # <<>>)

\* the body split at choices_match, the match of the Choices heading
SplitAtChoices(body, choices_match) ==
    [text_blocks |->
        TextBlocks(ReSplit(RulePat,
                           IF choices_match.start # 0
                           THEN SubSeq(body, 1, choices_match.start - 1)
                           ELSE body)),
     choices |-> IF choices_match.start # 0
                 THEN parse_choices(From(body, choices_match.end)) ELSE <<>>]
parse_text_blocks(body) == SplitAtChoices(body, ReSearch(ChoicesPat, body))

----------------------------------------------------------------------------
(* parse_text_blocks on a body *)

MaxBodyLines == 4   \* lines of a scene body

\* the lines of a body: prose, a blank line, a bare ---, a --- followed by a
\* blank, the choices heading, the heading in another spacing and in lower
\* case, a choice
BodyLines ==
    {<<"A">>, <<"B", " ", "b">>, <<>>, <<"---">>, <<"---", " ">>,
     <<"###", " ", "Choices">>, <<"###", "Choices", " ">>,
     <<"###", " ", "choices">>, <<"-", " ", "Go", " ", "->", " ", "a">>}

RECURSIVE JoinLines(_)
JoinLines(lines) ==
    IF lines = <<>> THEN <<>>
    ELSE IF Len(lines) = 1 THEN Head(lines)
    ELSE Head(lines) \o <<"\n">> \o JoinLines(Tail(lines))

InitBlocks ==
    /\ pc = "parse_text_blocks"
    /\ \E n \in 1..MaxBodyLines : \E lines \in [1..n -> BodyLines] :
       \E last \in {<<>>, <<"\n">>} :
            content = JoinLines(lines) \o last
    /\ parsed = <<>>
    /\ theme_errors = <<>>
    /\ md_files = <<>>
    /\ scenes = <<>>
    /\ duplicates = {}
    /\ validated = FALSE
    /\ errors = <<>>
    /\ warnings = <<>>
    /\ referenced_ids = {}
    /\ enemy_files = <<>>
    /\ enemies = <<>>
    /\ enemy_duplicates = {}
    /\ written = {}
    /\ exit_code = -1

\* text_blocks, choices = parse_text_blocks(body)
ParseTextBlocks ==
    /\ pc = "parse_text_blocks"
    /\ parsed' = parse_text_blocks(content)
    /\ pc' = "done"
    /\ UNCHANGED <<theme_errors, md_files, scenes, duplicates, validated,
                   errors, warnings, referenced_ids, enemy_files, enemies,
                   enemy_duplicates, written, exit_code, content>>

NextBlocks == ParseTextBlocks

SpecBlocks == InitBlocks /\ [][NextBlocks]_vars

----------------------------------------------------------------------------
(* C16 *)

\* the text before the choices heading
TextBeforeChoices(body) ==
    IF MarkerMatched(ChoicesPat, body)
    THEN SubSeq(body, 1, ReSearch(ChoicesPat, body).start - 1) ELSE body

\* the runs of lines between the bare --- lines
RECURSIVE SegmentsOf(_, _, _)
SegmentsOf(lines, cur, acc) ==
    IF lines = <<>> THEN Append(acc, cur)
    ELSE IF Head(lines) = <<"---">>
    THEN SegmentsOf(Tail(lines), <<>>, Append(acc, cur))
    ELSE SegmentsOf(Tail(lines), Append(cur, Head(lines)), acc)

TrimmedSegments(text) ==
    LET segs == SegmentsOf(Split(text, "\n"), <<>>, <<>>)
    IN SelectSeq([i \in DOMAIN segs |-> PyStr(Strip(JoinLines(segs[i])))],
                 LAMBDA x : x.v # <<>>)

HasBareRuleLine(text) ==
    \E i \in DOMAIN Split(text, "\n") : Split(text, "\n")[i] = <<"---">>

\* C16: the text blocks are the trimmed, non-empty segments between the bare
\* --- lines of the text before the choices heading, in order, and no text
\* block holds a bare --- line.
C16_SplitOnEveryRule ==
    pc = "done" =>
        /\ parsed.text_blocks = TrimmedSegments(TextBeforeChoices(content))
        /\ \A i \in DOMAIN parsed.text_blocks :
              ~HasBareRuleLine(parsed.text_blocks[i].v)

----------------------------------------------------------------------------
(* C23 *)

\* the line is ### Choices up to letter case and spacing
IsChoicesHeading(line) ==
    /\ line # <<>>
    /\ Head(line) = "###"
    /\ Strip(Tail(line)) \in {<<"Choices">>, <<"choices">>}

\* the heading lines of the body that have a line after them
HeadingLines(lines) ==
    {i \in 1..(Len(lines) - 1) : IsChoicesHeading(lines[i])}

\* C23: a body with a heading line that is ### Choices up to letter case
\* and spacing is split at the first such line: the lines after it give the
\* choices, and no text block holds a heading.
C23_HeadingAnyCaseAnySpacing ==
    (pc = "done" /\ HeadingLines(Split(content, "\n")) # {}) =>
        LET lines == Split(content, "\n")
            h == Min(HeadingLines(lines))
        IN /\ parsed.choices =
                  parse_choices(JoinLines(SubSeq(lines, h + 1, Len(lines))))
           /\ \A i \in DOMAIN parsed.text_blocks :
                  ~HasLexeme(parsed.text_blocks[i].v, "###")

----------------------------------------------------------------------------
(* parse_frontmatter *)

\* the outcome of a call: exc names the exception it raised, "" if none
Return(v) == [exc |-> "", v |-> v]
Raise(name) == [exc |-> name, v |-> PyNone]

\* value.isdigit()
IsDigit(text) == text # <<>> /\ \A i \in DOMAIN text : IsDigitChar(text[i])
\* int(value)
IntConv(text) ==
    IF text # <<>> /\ \A i \in DOMAIN text : IsDecimal(text[i])
    THEN Return(PyInt(IntOf(text)))
    ELSE Raise("ValueError")

\* if value.isdigit(): value = int(value)
ScalarValue(value) ==
    IF IsDigit(value) THEN IntConv(value) ELSE Return(PyStr(value))

\* value = float(value); if value == int(value): value = int(value), under
\* `except ValueError: pass`: float() reads digits, inf and nan; int() raises
\* OverflowError for inf, and ValueError for nan once value is the float
CharValue(value) ==
    IF value # <<>> /\ \A i \in DOMAIN value : IsDecimal(value[i])
    THEN Return(PyInt(IntOf(value)))
    ELSE IF value = <<"inf">> THEN Raise("OverflowError")
    ELSE IF value = <<"nan">> THEN Return(PyFloat("nan"))
    ELSE Return(PyStr(value))

\* key, _, value = stripped.partition(':'), both stripped
PartKey(stripped) == Strip(SubSeq(stripped, 1, Find(stripped, ":") - 1))
PartValue(stripped) == Strip(From(stripped, Find(stripped, ":")))

\* len(line) - len(line.lstrip())
get_indent(line) == Len(line) - Len(LStrip(line))

\* the locals of parse_frontmatter; current_list is kept as whether it is a
\* list: it is then the very list stored under frontmatter[current_key]
FrontInit ==
    [frontmatter |-> <<>>, current_key |-> PyNone, current_list |-> FALSE,
     current_action |-> PyNone, current_nested |-> PyNone,
     current_nested_key |-> PyNone, current_char |-> PyNone,
     actions_list |-> <<>>, chars_list |-> <<>>, exc |-> ""]

\* current_action, with current_nested stored under current_nested_key when
\* both are truthy
ActionWithNested(st) ==
    IF PyTruthy(st.current_nested) /\ PyTruthy(st.current_nested_key)
    THEN PyDict(DictSet(st.current_action.v, st.current_nested_key.v,
                        st.current_nested))
    ELSE st.current_action

\* actions_list after `if current_action: ... actions_list.append(current_action)`
ActionsFlushed(st) ==
    IF PyTruthy(st.current_action)
    THEN Append(st.actions_list, ActionWithNested(st)) ELSE st.actions_list
\* chars_list after `if current_char: chars_list.append(current_char)`
CharsFlushed(st) ==
    IF PyTruthy(st.current_char)
    THEN Append(st.chars_list, st.current_char) ELSE st.chars_list

\* - type: ... under actions (lines 75-85)
StartAction(st, stripped) ==
    [st EXCEPT !.actions_list = ActionsFlushed(st),
               !.current_action =
                   PyDict(<<[k |-> K("type"), v |-> PyStr(Strip(From(stripped, 4)))]>>),
               !.current_nested = PyNone,
               !.current_nested_key = PyNone,
               !.current_char = PyNone]

\* - file: ... under chars (lines 88-94)
StartChar(st, stripped) ==
    [st EXCEPT !.chars_list = CharsFlushed(st),
               !.current_char =
                   PyDict(<<[k |-> K("file"), v |-> PyStr(Strip(From(stripped, 4)))]>>),
               !.current_action = PyNone,
               !.current_nested = PyNone]

\* a property of the nested object (lines 97-105)
NestedProperty(st, stripped) ==
    LET value == ScalarValue(PartValue(stripped)) IN
    IF value.exc # "" THEN [st EXCEPT !.exc = value.exc]
    ELSE [st EXCEPT !.current_nested =
                        PyDict(DictSet(st.current_nested.v, PartKey(stripped), value.v))]

\* a property of the action, or the start of a nested object (lines 108-127)
ActionProperty(st, stripped) ==
    IF PartValue(stripped) = <<>>
    THEN [st EXCEPT !.current_action = ActionWithNested(st),
                    !.current_nested = PyDict(<<>>),
                    !.current_nested_key = PyStr(PartKey(stripped))]
    ELSE LET value == ScalarValue(PartValue(stripped)) IN
         IF value.exc # "" THEN [st EXCEPT !.exc = value.exc]
         ELSE [st EXCEPT !.current_action =
                             PyDict(DictSet(st.current_action.v, PartKey(stripped), value.v))]

\* a property of the positioned char (lines 130-142)
CharProperty(st, stripped) ==
    LET value == CharValue(PartValue(stripped)) IN
    IF value.exc # "" THEN [st EXCEPT !.exc = value.exc]
    ELSE [st EXCEPT !.current_char =
                        PyDict(DictSet(st.current_char.v, PartKey(stripped), value.v))]

\* a simple list item (lines 145-152)
ListItem(st, stripped) ==
    LET item == PyStr(Strip(From(stripped, 2))) IN
    IF st.current_key = PyStr(K("chars")) /\ IsNone(st.current_char)
    THEN [st EXCEPT !.chars_list = Append(st.chars_list, item)]
    ELSE IF st.current_list
    THEN [st EXCEPT !.frontmatter =
             DictSet(st.frontmatter, st.current_key.v,
                     PyList(Append(DictGet(st.frontmatter, st.current_key.v, PyNone).v,
                                   item)))]
    ELSE st

\* key: value at indent 0 (lines 155-191)
TopLevelKey(st, stripped) ==
    LET key == PartKey(stripped)
        value == PartValue(stripped)
        flushed == [st EXCEPT !.actions_list = ActionsFlushed(st),
                              !.current_action =
                                  IF PyTruthy(st.current_action) THEN PyNone
                                  ELSE st.current_action,
                              !.current_nested =
                                  IF PyTruthy(st.current_action) THEN PyNone
                                  ELSE st.current_nested,
                              !.current_nested_key =
                                  IF PyTruthy(st.current_action) THEN PyNone
                                  ELSE st.current_nested_key,
                              !.chars_list = CharsFlushed(st),
                              !.current_char =
                                  IF PyTruthy(st.current_char) THEN PyNone
                                  ELSE st.current_char]
    IN IF value = <<>>
       THEN IF key = K("actions")
            THEN [flushed EXCEPT !.current_key = PyStr(key), !.current_list = FALSE]
            ELSE IF key = K("chars")
            THEN [flushed EXCEPT !.current_key = PyStr(key), !.current_list = FALSE,
                                 !.chars_list = <<>>]
            ELSE [flushed EXCEPT !.current_list = TRUE,
                                 !.frontmatter = DictSet(flushed.frontmatter, key, PyList(<<>>)),
                                 !.current_key = PyStr(key)]
       ELSE LET v == ScalarValue(value) IN
            IF v.exc # ""
            THEN [flushed EXCEPT !.current_list = FALSE, !.current_key = PyStr(key),
                                 !.exc = v.exc]
            ELSE [flushed EXCEPT !.current_list = FALSE, !.current_key = PyStr(key),
                                 !.frontmatter = DictSet(flushed.frontmatter, key, v.v)]

\* the body of `for line in frontmatter_text.split('\n')`
FrontLine(st, line) ==
    LET stripped == Strip(line)
        indent == get_indent(line)
        colon == Contains(stripped, ":")
    IN IF st.exc # "" \/ stripped = <<>> THEN st
       ELSE IF st.current_key = PyStr(K("actions"))
               /\ StartsWith(stripped, <<"-", " ", "type", ":">>)
       THEN StartAction(st, stripped)
       ELSE IF st.current_key = PyStr(K("chars"))
               /\ StartsWith(stripped, <<"-", " ", "file", ":">>)
       THEN StartChar(st, stripped)
       ELSE IF ~IsNone(st.current_nested) /\ indent >= 6 /\ colon
       THEN NestedProperty(st, stripped)
       ELSE IF ~IsNone(st.current_action) /\ indent >= 4 /\ colon
       THEN ActionProperty(st, stripped)
       ELSE IF ~IsNone(st.current_char) /\ indent >= 4 /\ colon
       THEN CharProperty(st, stripped)
       ELSE IF StartsWith(stripped, <<"-", " ">>)
       THEN ListItem(st, stripped)
       ELSE IF indent = 0 /\ colon
       THEN TopLevelKey(st, stripped)
       ELSE st

RECURSIVE FrontLines(_, _)
FrontLines(st, lines) ==
    IF lines = <<>> THEN st
    ELSE FrontLines(FrontLine(st, Head(lines)), Tail(lines))

\* the frontmatter returned after the loop (lines 193-206)
WithList(frontmatter, key, list) ==
    IF list # <<>> THEN DictSet(frontmatter, K(key), PyList(list))
    ELSE frontmatter
FrontResult(st) ==
    WithList(WithList(st.frontmatter, "actions", ActionsFlushed(st)),
             "chars", CharsFlushed(st))

\* the return value for the state st after the loop, or its exception
FrontReturn(st, body) ==
    IF st.exc # "" THEN Raise(st.exc)
    ELSE Return([frontmatter |-> FrontResult(st), body |-> body])

\* the text split at end_match, the match of the closing ---
FrontBlock(text, end_match) ==
    IF end_match.start = 0
    THEN Return([frontmatter |-> <<>>, body |-> text])
    ELSE FrontReturn(FrontLines(FrontInit,
                                Split(SubSeq(text, 2, end_match.start), "\n")),
                     From(text, 1 + end_match.end))

\* parse_frontmatter(content): the pair (frontmatter, body), or an exception
parse_frontmatter(text) ==
    IF ~StartsWith(text, <<"---">>)
    THEN Return([frontmatter |-> <<>>, body |-> text])
    ELSE FrontBlock(text, ReSearch(RulePat, From(text, 1)))

----------------------------------------------------------------------------
(* parse_scene_file *)

\* scene = {'id': frontmatter.get('id', filepath.stem), ...}
NewScene(stem, frontmatter, text_blocks, choices) ==
    << [k |-> K("id"), v |-> DictGet(frontmatter, K("id"), PyStr(<<stem>>))],
       [k |-> K("bg"), v |-> DictGet(frontmatter, K("bg"), PyNone)],
       [k |-> K("music"), v |-> DictGet(frontmatter, K("music"), PyNone)],
       [k |-> K("chars"), v |-> DictGet(frontmatter, K("chars"), PyList(<<>>))],
       [k |-> K("set_flags"), v |-> DictGet(frontmatter, K("set_flags"), PyList(<<>>))],
       [k |-> K("require_flags"), v |-> DictGet(frontmatter, K("require_flags"), PyList(<<>>))],
       [k |-> K("add_items"), v |-> DictGet(frontmatter, K("add_items"), PyList(<<>>))],
       [k |-> K("remove_items"), v |-> DictGet(frontmatter, K("remove_items"), PyList(<<>>))],
       [k |-> K("actions"), v |-> DictGet(frontmatter, K("actions"), PyList(<<>>))],
       [k |-> K("textBlocks"), v |-> PyList(text_blocks)],
       [k |-> K("choices"), v |-> PyList(choices)] >>

\* the keys deleted `if not scene[key]`, and those deleted `if scene[key] is None`
FalsyDeleted ==
    <<"set_flags", "require_flags", "add_items", "remove_items", "actions", "chars">>
NoneDeleted == <<"bg", "music">>

\* the scene after the deletions of lines 380-395
CleanScene(scene) ==
    SelectSeq(scene,
              LAMBDA p : /\ ~(p.k \in {K(FalsyDeleted[i]) : i \in DOMAIN FalsyDeleted}
                              /\ ~PyTruthy(p.v))
                         /\ ~(p.k \in {K(NoneDeleted[i]) : i \in DOMAIN NoneDeleted}
                              /\ IsNone(p.v)))

\* parse_scene_file(filepath) for the file of that stem and that content
SceneOf(stem, frontmatter, blocks) ==
    Return(PyDict(CleanScene(NewScene(stem, frontmatter, blocks.text_blocks,
                                      blocks.choices))))
SceneFrom(stem, front) ==
    IF front.exc # "" THEN Raise(front.exc)
    ELSE SceneOf(stem, front.v.frontmatter, parse_text_blocks(front.v.body))
parse_scene_file(stem, text) == SceneFrom(stem, parse_frontmatter(text))

----------------------------------------------------------------------------
(* parse_scene_file on a scene file *)

MaxChunks == 3   \* chunks of frontmatter lines in a scene file

\* the chunks a frontmatter is made of: one line, or a line that opens a
\* list of records with the first line of its first record
FrontChunks ==
    { <<"id", ":", " ", "x">>,
      <<"id", ":">>,
      <<"id", ":", " ", "7">>,
      <<"id", ":", " ", SuperscriptTwo>>,
      <<"bg", ":", " ", "b.png">>,
      <<"bg", ":">>,
      <<"music", ":", " ", "m.ogg">>,
      <<"set_flags", ":">>,
      <<" ", " ", "-", " ", "f">>,
      <<"actions", ":", "\n", " ", " ", "-", " ", "type", ":", " ", "roll_dice">>,
      <<" ", " ", " ", " ", "success_target", ":", " ", "a">>,
      <<" ", " ", " ", " ", "enemy", ":", "\n",
        " ", " ", " ", " ", " ", " ", "hp", ":", " ", "5">>,
      <<"chars", ":", "\n", " ", " ", "-", " ", "file", ":", " ", "a.svg">>,
      <<" ", " ", " ", " ", "x", ":", " ", "inf">>,
      <<" ", " ", " ", " ", "x", ":", " ", "5">>,
      <<"chars", ":">> }

RECURSIVE LinesAfter(_)
LinesAfter(chunks) ==
    IF chunks = <<>> THEN <<>>
    ELSE <<"\n">> \o Head(chunks) \o LinesAfter(Tail(chunks))

SceneBody ==
    <<"Hello", "\n", "\n", "###", " ", "Choices", "\n",
      "-", " ", "Go", " ", "->", " ", "a", "\n">>

\* a file with a frontmatter block, closed or not
SceneFileText(chunks, closed) ==
    <<"---">> \o LinesAfter(chunks)
    \o (IF closed THEN <<"\n", "---", "\n">> ELSE <<"\n">>) \o SceneBody

SceneStem == "intro"

InitScene ==
    /\ pc = "parse_scene_file"
    /\ \/ content = SceneBody
       \/ \E n \in 0..MaxChunks : \E chunks \in [1..n -> FrontChunks] :
          \E closed \in BOOLEAN :
            /\ closed \/ n <= 1
            /\ content = SceneFileText(chunks, closed)
    /\ parsed = <<>>
    /\ theme_errors = <<>>
    /\ md_files = <<>>
    /\ scenes = <<>>
    /\ duplicates = {}
    /\ validated = FALSE
    /\ errors = <<>>
    /\ warnings = <<>>
    /\ referenced_ids = {}
    /\ enemy_files = <<>>
    /\ enemies = <<>>
    /\ enemy_duplicates = {}
    /\ written = {}
    /\ exit_code = -1

\* scene = parse_scene_file(filepath)
ParseScene ==
    /\ pc = "parse_scene_file"
    /\ parsed' = parse_scene_file(SceneStem, content)
    /\ pc' = "done"
    /\ UNCHANGED <<theme_errors, md_files, scenes, duplicates, validated,
                   errors, warnings, referenced_ids, enemy_files, enemies,
                   enemy_duplicates, written, exit_code, content>>

NextScene == ParseScene

SpecScene == InitScene /\ [][NextScene]_vars

----------------------------------------------------------------------------
(* C12 *)

OptionalKeys ==
    {"bg", "music", "chars", "set_flags", "require_flags", "add_items",
     "remove_items", "actions"}

\* a value that is null or an empty str, list or dict
IsNullOrEmpty(x) ==
    x.t = "None" \/ (x.t \in {"str", "list", "dict"} /\ x.v = <<>>)

\* C12: a compiled Scene holds no optional key (bg, music, chars, set_flags,
\* require_flags, add_items, remove_items, actions) whose value is null or
\* empty.
C12_NoEmptyOptionalKey ==
    (pc = "done" /\ parsed.exc = "") =>
        \A i \in DOMAIN parsed.v.v :
            parsed.v.v[i].k \in {K(key) : key \in OptionalKeys}
                => ~IsNullOrEmpty(parsed.v.v[i].v)

----------------------------------------------------------------------------
(* C17 *)

\* C17: the id of a compiled Scene is a scalar (a str or an int) and is not
\* the empty str.
C17_IdIsNonEmptyScalar ==
    (pc = "done" /\ parsed.exc = "") =>
        LET id == DictGet(parsed.v.v, K("id"), PyNone)
        IN id.t \in {"str", "int"} /\ ~(id.t = "str" /\ id.v = <<>>)

----------------------------------------------------------------------------
(* C18 *)

\* C18: parse_frontmatter returns a (map, body) pair for every file text: it
\* raises no exception.
C18_FrontmatterNeverRaises ==
    pc = "done" => parse_frontmatter(content).exc = ""

----------------------------------------------------------------------------
(* parse_frontmatter on a file text *)

MaxFrontLines == 4   \* lines between the delimiters of a file

\* the lines of a frontmatter block: the keys that open a list of records,
\* the first line of a record, a property line, a bare list item, an
\* indented key outside any record, and top-level scalars
FrontTextLines ==
    { <<"actions", ":">>,
      <<" ", " ", "-", " ", "type", ":", " ", "roll_dice">>,
      <<" ", " ", " ", " ", "success_target", ":", " ", "a">>,
      <<"chars", ":">>,
      <<" ", " ", "-", " ", "file", ":", " ", "a.svg">>,
      <<" ", " ", " ", " ", "x", ":", " ", "5">>,
      <<" ", " ", "-", " ", "b.svg">>,
      <<" ", " ", "note", ":", " ", "n">>,
      <<"bg", ":", " ", "b.png">>,
      <<"once", ":", " ", "true">> }

\* the text after the closing delimiter: it holds a --- line of its own
FrontBody == <<"B", "\n", "---", "\n", "C", "\n">>

\* how the block ends: a closing --- line and the body, a closing --- as the
\* last line of the file without a newline, or no closing line
FrontClosings == {"line", "last_line", "none"}

FrontFileText(opened, lines, closing) ==
    (IF opened THEN <<"---">> ELSE <<"id", ":", " ", "x">>)
    \o LinesAfter(lines)
    \o (CASE closing = "line" -> <<"\n", "---", "\n">> \o FrontBody
          [] closing = "last_line" -> <<"\n", "---">>
          [] closing = "none" -> <<"\n", "B", "\n">>)

InitFront ==
    /\ pc = "parse_frontmatter"
    /\ \E n \in 0..MaxFrontLines : \E lines \in [1..n -> FrontTextLines] :
       \E opened \in BOOLEAN : \E closing \in FrontClosings :
            /\ (opened /\ closing = "line") \/ n <= 2
            /\ content = FrontFileText(opened, lines, closing)
    /\ parsed = <<>>
    /\ theme_errors = <<>>
    /\ md_files = <<>>
    /\ scenes = <<>>
    /\ duplicates = {}
    /\ validated = FALSE
    /\ errors = <<>>
    /\ warnings = <<>>
    /\ referenced_ids = {}
    /\ enemy_files = <<>>
    /\ enemies = <<>>
    /\ enemy_duplicates = {}
    /\ written = {}
    /\ exit_code = -1

\* frontmatter, body = parse_frontmatter(content)
ParseFront ==
    /\ pc = "parse_frontmatter"
    /\ parsed' = parse_frontmatter(content)
    /\ pc' = "done"
    /\ UNCHANGED <<theme_errors, md_files, scenes, duplicates, validated,
                   errors, warnings, referenced_ids, enemy_files, enemies,
                   enemy_duplicates, written, exit_code, content>>

NextFront == ParseFront

SpecFront == InitFront /\ [][NextFront]_vars

----------------------------------------------------------------------------
(* Vocabulary of the properties of parse_frontmatter *)

\* the lines of the file text
FileLines == Split(content, "\n")

\* the file opens with a --- line and has a later --- line that a newline ends
HasFrontBlock ==
    /\ FileLines[1] = <<"---">>
    /\ \E j \in 2..(Len(FileLines) - 1) : FileLines[j] = <<"---">>

\* the first line of a record: - type: or - file:
IsRecordMarker(line) ==
    \/ StartsWith(Strip(line), <<"-", " ", "type", ":">>)
    \/ StartsWith(Strip(line), <<"-", " ", "file", ":">>)

\* the records of the lists actions and chars of a frontmatter
RecordsOf(frontmatter) ==
    LET actions == DictGet(frontmatter, K("actions"), PyList(<<>>)).v
        chars == DictGet(frontmatter, K("chars"), PyList(<<>>)).v
    IN {actions[i] : i \in DOMAIN actions}
       \cup {chars[i] : i \in {j \in DOMAIN chars : chars[j].t = "dict"}}

----------------------------------------------------------------------------
(* C24 *)

\* the first non-blank line after line i indented no more than line i
CloserOf(lines, i) ==
    Min({j \in (i + 1)..Len(lines) :
            Strip(lines[j]) # <<>> /\ get_indent(lines[j]) <= get_indent(lines[i])})

\* C24: in a file with one record marker, every key of the record other
\* than its first comes from a line between the marker and the first later
\* line indented no more than the marker: a line after that one adds nothing
\* to the record.
C24_ClosedRecordStaysClosed ==
    (pc = "done" /\ parsed.exc = "" /\ HasFrontBlock) =>
        \A i \in DOMAIN FileLines :
            (/\ IsRecordMarker(FileLines[i])
             /\ \A j \in DOMAIN FileLines : IsRecordMarker(FileLines[j]) => j = i)
            => \A r \in RecordsOf(parsed.v.frontmatter) :
                 \A p \in 2..Len(r.v) :
                    \E k \in (i + 1)..(CloserOf(FileLines, i) - 1) :
                        /\ Contains(FileLines[k], ":")
                        /\ PartKey(Strip(FileLines[k])) = r.v[p].k

----------------------------------------------------------------------------
(* C25 *)

\* the --- lines after the first line of the file
ClosingLines == {j \in 2..Len(FileLines) : FileLines[j] = <<"---">>}

\* C25: a file that does not open with a --- line, or has no later ---
\* line, gives the empty frontmatter and the whole text as body; any other
\* file gives as body the text after its first closing --- line.
C25_BodyAfterFirstClosing ==
    (pc = "done" /\ parsed.exc = "") =>
        IF FileLines[1] # <<"---">> \/ ClosingLines = {}
        THEN /\ parsed.v.frontmatter = <<>>
             /\ parsed.v.body = content
        ELSE parsed.v.body =
                 JoinLines(SubSeq(FileLines, Min(ClosingLines) + 1, Len(FileLines)))

----------------------------------------------------------------------------
(* C26 *)

\* the values of the pairs of a dict, those of its nested dicts included
RECURSIVE FieldValues(_)
FieldValues(d) ==
    UNION {IF d[i].v.t = "dict" THEN FieldValues(d[i].v.v) ELSE {d[i].v} :
              i \in DOMAIN d}

\* the scalars stored in a frontmatter: its top-level fields and the fields
\* of its records
StoredScalars(frontmatter) ==
    {frontmatter[i].v : i \in {j \in DOMAIN frontmatter :
                                  frontmatter[j].v.t \notin {"list", "dict"}}}
    \cup UNION {FieldValues(r.v) : r \in RecordsOf(frontmatter)}

\* texts the coercion rule turns into a number or a boolean, or unquotes
IsDigitsText(text) == text # <<>> /\ \A i \in DOMAIN text : IsDecimal(text[i])
IsBooleanText(text) == text \in {<<"true">>, <<"false">>, <<"True">>, <<"False">>}
IsQuotedText(text) ==
    Len(text) >= 2 /\ Head(text) \in {"\"", "'"} /\ text[Len(text)] = Head(text)

\* C26: every scalar stored by parse_frontmatter is the result of the one
\* coercion rule (integer, else float, else boolean, else the unquoted
\* string): no stored string is all digits, spells a boolean or is quoted.
C26_OneCoercionRule ==
    (pc = "done" /\ parsed.exc = "") =>
        \A x \in StoredScalars(parsed.v.frontmatter) :
            x.t = "str" =>
                /\ ~IsDigitsText(x.v)
                /\ ~IsBooleanText(x.v)
                /\ ~IsQuotedText(x.v)

----------------------------------------------------------------------------
(* C30 *)

\* the chars: lines of the file
CharsKeyLines == {i \in DOMAIN FileLines : FileLines[i] = <<"chars", ":">>}

\* the list item lines under the chars: line c: those before the next
\* non-blank line at indent 0, in document order
CharItemLines(c) ==
    LET end == Min({j \in (c + 1)..Len(FileLines) :
                       FileLines[j] # <<>> /\ get_indent(FileLines[j]) = 0})
    IN SelectSeq([j \in 1..(end - c - 1) |-> Strip(FileLines[c + j])],
                 LAMBDA l : StartsWith(l, <<"-", " ">>))

\* the entry of the chars list that an item line gives
IsEntryOf(entry, item) ==
    IF StartsWith(item, <<"-", " ", "file", ":">>)
    THEN /\ entry.t = "dict"
         /\ PyEq(DictGet(entry.v, K("file"), PyNone), PyStr(Strip(From(item, 4))))
    ELSE PyEq(entry, PyStr(Strip(From(item, 2))))

\* C30: in a file with one chars: key, the compiled chars list has one
\* entry per list item line under that key, in document order: the bare
\* filename of a bare item, a record with that file for a - file: item.
C30_OneEntryPerCharLine ==
    (pc = "done" /\ parsed.exc = "" /\ HasFrontBlock
        /\ Cardinality(CharsKeyLines) = 1 /\ ~HasLexeme(content, "type")) =>
        LET items == CharItemLines(CHOOSE c \in CharsKeyLines : TRUE)
            chars == DictGet(parsed.v.frontmatter, K("chars"), PyList(<<>>)).v
        IN /\ Len(chars) = Len(items)
           /\ \A k \in DOMAIN items : IsEntryOf(chars[k], items[k])

----------------------------------------------------------------------------
(* generate_story_js *)

\* str(n) of an int n >= 0
RECURSIVE DecimalText(_)
DecimalText(n) ==
    IF n < 10 THEN <<DecimalDigits[n + 1]>>
    ELSE DecimalText(n \div 10) \o <<DecimalDigits[(n % 10) + 1]>>

\* json.dumps of a str: quoted, a newline and the non-ASCII characters escaped
JsonChar(c) ==
    IF c = "\n" THEN "\\n"
    ELSE IF c = "→" THEN "\\u2192"
    ELSE IF c = SuperscriptTwo THEN "\\u00b2"
    ELSE c
JsonStr(text) == <<"\"">> \o [i \in DOMAIN text |-> JsonChar(text[i])] \o <<"\"">>

\* the newline and the indentation before an item at that depth (indent=2)
Spaces(n) == [i \in 1..n |-> " "]
NewLine(depth) == <<"\n">> \o Spaces(2 * depth)

\* json.dumps(x, indent=2) for a value at that depth; the keys of a dict are
\* written in the order of its pairs
RECURSIVE Json(_, _)
RECURSIVE JsonItems(_, _)
RECURSIVE JsonMembers(_, _)
Json(x, depth) ==
    CASE x.t = "str" -> JsonStr(x.v)
      [] x.t = "int" -> DecimalText(x.v)
      [] x.t = "float" -> <<"NaN">>
      [] x.t = "None" -> <<"null">>
      [] x.t = "list" ->
            IF x.v = <<>> THEN <<"[", "]">>
            ELSE <<"[">> \o JsonItems(x.v, depth + 1) \o NewLine(depth) \o <<"]">>
      [] x.t = "dict" ->
            IF x.v = <<>> THEN <<"{", "}">>
            ELSE <<"{">> \o JsonMembers(x.v, depth + 1) \o NewLine(depth) \o <<"}">>
JsonItems(items, depth) ==
    NewLine(depth) \o Json(Head(items), depth)
    \o (IF Tail(items) = <<>> THEN <<>> ELSE <<",">> \o JsonItems(Tail(items), depth))
JsonMembers(pairs, depth) ==
    NewLine(depth) \o JsonStr(Head(pairs).k) \o <<":", " ">>
    \o Json(Head(pairs).v, depth)
    \o (IF Tail(pairs) = <<>> THEN <<>> ELSE <<",">> \o JsonMembers(Tail(pairs), depth))

\* story_dict[scene['id']] = scene, for each scene in turn; a list is no key
StorySet(d, id, scene) ==
    IF \E i \in DOMAIN d : PyEq(d[i].k, id)
    THEN [d EXCEPT ![CHOOSE i \in DOMAIN d : PyEq(d[i].k, id)] = [k |-> id, v |-> scene]]
    ELSE Append(d, [k |-> id, v |-> scene])

RECURSIVE StoryDict(_, _)
StoryDict(ss, d) ==
    IF ss = <<>> THEN Return(d)
    ELSE LET id == DictGet(Head(ss).v, K("id"), PyNone) IN
         IF id.t \in {"list", "dict"} THEN Raise("TypeError")
         ELSE StoryDict(Tail(ss), StorySet(d, id, Head(ss)))

\* the orders in which json.dumps may write the keys of a dict, as the
\* positions of its pairs: a dict is iterated in insertion order
IterationOrdersAny(d) == OrdersOf(DOMAIN d)
IterationOrders(d) == {[i \in DOMAIN d |-> i]}

\* the key of story_dict as json.dumps writes it: an int key as its str()
KeyText(id) == IF id.t = "int" THEN DecimalText(id.v) ELSE id.v

\* json.dumps(story_dict, indent=2), the keys written in that order
DumpStory(d, order) ==
    Json(PyDict([i \in DOMAIN d |-> [k |-> KeyText(d[order[i]].k), v |-> d[order[i]].v]]), 0)

StoryHeader ==
    <<"/**", "\n", " * Andi VN - Story Data", "\n", " * ", "\n",
      " * AUTO-GENERATED FILE - DO NOT EDIT MANUALLY", "\n",
      " * Generated by tools/build_story_from_md.py", "\n", " * ", "\n",
      " * Edit scene files in scenes/*.md instead.", "\n", " */", "\n", "\n",
      "const story = ">>
StoryFooter ==
    <<";", "\n", "\n", "// Export for use by engine", "\n",
      "if (typeof module !== \"undefined\" && module.exports) {", "\n",
      "    module.exports = { story };", "\n", "}", "\n">>

\* generate_story_js(scenes): the texts it may return, or the exception
StoryText(story_dict) ==
    IF story_dict.exc # "" THEN {Raise(story_dict.exc)}
    ELSE {Return(StoryHeader \o DumpStory(story_dict.v, order) \o StoryFooter) :
             order \in IterationOrders(story_dict.v)}
generate_story_js(ss) == StoryText(StoryDict(ss, <<>>))

----------------------------------------------------------------------------
(* compiling a set of scene files into the story text, twice *)

MaxStoryFiles == 2   \* scene files in the scenes directory

\* the texts of the scene files: with and without frontmatter, with a str
\* and an int id, with lists and nested records
StorySources ==
    { SceneBody,
      SceneFileText(<< <<"id", ":", " ", "x">> >>, TRUE),
      SceneFileText(<< <<"id", ":", " ", "7">>, <<"bg", ":", " ", "b.png">> >>, TRUE),
      SceneFileText(<< <<"bg", ":", " ", "b.png">>, <<"music", ":", " ", "m.ogg">> >>, TRUE),
      SceneFileText(<< <<"music", ":", " ", "m.ogg">>, <<"bg", ":", " ", "b.png">> >>, TRUE),
      SceneFileText(<< <<"set_flags", ":">>, <<" ", " ", "-", " ", "f">> >>, TRUE),
      SceneFileText(<< <<"actions", ":", "\n", " ", " ", "-", " ", "type", ":", " ", "roll_dice">>,
                       <<" ", " ", " ", " ", "success_target", ":", " ", "a">> >>, TRUE),
      SceneFileText(<< <<"chars", ":", "\n", " ", " ", "-", " ", "file", ":", " ", "a.svg">>,
                       <<" ", " ", " ", " ", "x", ":", " ", "5">> >>, TRUE) }

\* the stems of the scene files, in the order the directory lists them
StoryStems == <<"a", "b", "c", "d">>

\* scenes.append(parse_scene_file(md_file)) for each file in turn; the first
\* exception ends the loop
ScenesOrRaise(ps) ==
    IF \E i \in DOMAIN ps : ps[i].exc # ""
    THEN Raise(ps[CHOOSE i \in DOMAIN ps :
                    ps[i].exc # "" /\ \A j \in 1..(i - 1) : ps[j].exc = ""].exc)
    ELSE Return([i \in DOMAIN ps |-> ps[i].v])
CompiledScenes(texts) ==
    ScenesOrRaise([i \in DOMAIN texts |->
                     parse_scene_file(StoryStems[i], texts[i])])

\* js_content = generate_story_js(scenes) for the scenes of those files
StoryOrRaise(compiled) ==
    IF compiled.exc # "" THEN {Raise(compiled.exc)}
    ELSE generate_story_js(compiled.v)
CompiledStory(texts) == StoryOrRaise(CompiledScenes(texts))

InitStory ==
    /\ pc = "compile"
    /\ \E n \in 1..MaxStoryFiles : content \in [1..n -> StorySources]
    /\ parsed = <<>>
    /\ theme_errors = <<>>
    /\ md_files = <<>>
    /\ scenes = <<>>
    /\ duplicates = {}
    /\ validated = FALSE
    /\ errors = <<>>
    /\ warnings = <<>>
    /\ referenced_ids = {}
    /\ enemy_files = <<>>
    /\ enemies = <<>>
    /\ enemy_duplicates = {}
    /\ written = {}
    /\ exit_code = -1

\* one run of the compiler over the same files: parse each, then serialise
CompileStory ==
    /\ pc \in {"compile", "compile_again"}
    /\ \E out \in CompiledStory(content) : parsed' = Append(parsed, out)
    /\ pc' = IF pc = "compile" THEN "compile_again" ELSE "done"
    /\ UNCHANGED <<theme_errors, md_files, scenes, duplicates, validated,
                   errors, warnings, referenced_ids, enemy_files, enemies,
                   enemy_duplicates, written, exit_code, content>>

NextStory == CompileStory

SpecStory == InitStory /\ [][NextStory]_vars

----------------------------------------------------------------------------
(* C19 *)

----------------------------------------------------------------------------
(* main() from the scene file texts to validate_scenes: the scenes that    *)
(* parse_scene_file returns are handed to the duplicate check and to       *)
(* validate_scenes in the string encoding of the driver                    *)

MaxResolveFiles == 2   \* scene files in scenes/

\* the characters of a text in a row
RECURSIVE Join(_)
Join(text) == IF text = <<>> THEN "" ELSE Head(text) \o Join(Tail(text))

\* a str, an int or None as the driver holds it: s, "#n", NoneVal
DriverVal(x) ==
    CASE x.t = "str" -> Join(x.v)
      [] x.t = "int" -> "#" \o ToString(x.v)
      [] x.t = "None" -> NoneVal

\* what validate_scenes reads of a scene: s['id'], choice['target'] of
\* scene['choices'], action.get(key) of scene.get('actions', [])
DriverScene(scene) ==
    LET choices == DictGet(scene.v, K("choices"), PyList(<<>>)).v
        actions == DictGet(scene.v, K("actions"), PyList(<<>>)).v
    IN [id |-> DriverVal(DictGet(scene.v, K("id"), PyNone)),
        choices |-> [i \in DOMAIN choices |->
                       [target |-> DriverVal(DictGet(choices[i].v, K("target"), PyNone))]],
        actions |-> [i \in DOMAIN actions |->
                       [k \in {"type"} \cup ActionKeySet |->
                           DriverVal(DictGet(actions[i].v, K(k), PyNone))]]]

\* the id texts and target texts of the files: a word and a digit
ResolveTexts == {<<"a">>, <<"7">>}
ResolveStems == {"start", "a", "7"}

\* the id: line of a file: none, one of the texts, or a text int() rejects
ResolveIdLines ==
    {<<>>} \cup {<<"id", ":", " ">> \o t : t \in ResolveTexts \cup {<<SuperscriptTwo>>}}
\* the actions of a file: none, or a roll_dice with its success_target
ResolveActions ==
    {<<>>} \cup {<<"actions", ":", "\n", " ", " ", "-", " ", "type", ":", " ",
                   "roll_dice", "\n", " ", " ", " ", " ", "success_target", ":",
                   " ">> \o t : t \in ResolveTexts}
\* the choices of a file: none, or one choice
ResolveChoices ==
    {<<>>} \cup {<<"###", " ", "Choices", "\n", "-", " ", "Go", " ", "->", " ">>
                   \o t \o <<"\n">> : t \in ResolveTexts}

ResolveFileText(idline, actions, choices) ==
    (IF idline = <<>> /\ actions = <<>> THEN <<>>
     ELSE <<"---">> \o LinesAfter(SelectSeq(<<idline, actions>>, LAMBDA l : l # <<>>))
          \o <<"\n", "---", "\n">>)
    \o <<"Hello", "\n">> \o choices

ResolveSources ==
    {ResolveFileText(i, a, c) :
        i \in ResolveIdLines, a \in ResolveActions, c \in ResolveChoices}

InitResolve ==
    /\ pc = "parse_scenes"
    /\ \E n \in 1..MaxResolveFiles :
        /\ md_files \in DistinctSeqs(ResolveStems, n)
        /\ content \in [1..n -> ResolveSources]
    /\ parsed = <<>>
    /\ theme_errors = <<>>
    /\ scenes = <<>>
    /\ duplicates = {}
    /\ validated = FALSE
    /\ errors = <<>>
    /\ warnings = <<>>
    /\ referenced_ids = {}
    /\ enemy_files = <<>>
    /\ enemies = <<>>
    /\ enemy_duplicates = {}
    /\ written = {"theme.js"}
    /\ exit_code = -1

\* one iteration of `for filepath in md_files`, on the text of the file:
\* scene = parse_scene_file(filepath), and exit(1) on an exception
MainCompileScene ==
    /\ pc = "parse_scenes"
    /\ parsed' = parse_scene_file(md_files[Len(scenes) + 1], content[Len(scenes) + 1])
    /\ IF parsed'.exc # ""
       THEN Exit(1) /\ UNCHANGED scenes
       ELSE /\ scenes' = Append(scenes, DriverScene(parsed'.v))
            /\ pc' = IF LoopExhausted(scenes', md_files)
                     THEN "check_duplicates" ELSE "parse_scenes"
            /\ UNCHANGED exit_code
    /\ UNCHANGED <<theme_errors, md_files, duplicates, validated, errors,
                   warnings, referenced_ids, enemy_files, enemies,
                   enemy_duplicates, written, content>>

NextResolve ==
    \/ MainCompileScene
    \/ MainCheckDuplicates
    \/ MainValidate

SpecResolve == InitResolve /\ [][NextResolve]_vars

----------------------------------------------------------------------------
(* C29 *)

\* the text a driver value was written as: s for the str s and n for "#n"
TextOfVal(v) ==
    CHOOSE t \in ResolveStems : v \in {t, "#" \o t}

\* C29: validate_scenes returns no error for a target written with the
\* same text as the id of a scene of the set (its id: line or its file
\* name), be the text a word or digits.
C29_SameTextResolves ==
    validated =>
        \A k \in DOMAIN errors :
            \A i \in DOMAIN scenes :
                TextOfVal(errors[k].target) # TextOfVal(scenes[i].id)

====
